---- MODULE Spec2Model ----
(***************************************************************************)
(* go-cyacd: the bootloader programming sequence (bootloader.Programmer)   *)
(* over a duplex byte transport, with the frame codec (package protocol)   *)
(* it is built on.  Frames are sequences of bytes (0..255); the transport  *)
(* is an io.ReadWriter whose Read results are chosen by the environment.   *)
(***************************************************************************)
EXTENDS Integers, Sequences, FiniteSets, TLC

\* ------------------------------------------------------------------------
\* Bounds of the model
\* ------------------------------------------------------------------------
MaxRows == 2

MaxDataLen == 3

MaxChunk == 2

\* longest payload of the enumerated short frames
MaxPayload == 2

\* ------------------------------------------------------------------------
\* Protocol constants (protocol/constants)
\* ------------------------------------------------------------------------
StartOfPacket == 1

EndOfPacket == 23

MinFrameSize == 7

CmdEnterBootloader == 56

CmdGetFlashSize == 50

CmdProgramRow == 57

CmdVerifyRow == 58

CmdVerifyChecksum == 49

CmdSendData == 55

CmdExitBootloader == 59

CmdEraseRow == 52

CmdSyncBootloader == 53

CmdGetMetadata == 60

CmdGetAppStatus == 51

CmdSetActiveApp == 54

StatusSuccess == 0

ErrKey == 6

ErrChecksum == 8

ErrRow == 10

MaxDataSize == 256

BootloaderKeySize == 6

EnterBootloaderResponseSize == 8

GetFlashSizeResponseSize == 4

VerifyRowResponseSize == 1

VerifyChecksumResponseSize == 1

DefaultResponseBufferSize == 512

\* defaultConfig().Retries
DefaultRetries == 3

DefaultChunkSize == 57

ChecksumBasicSum == 0

ChecksumCRC16 == 1

\* ------------------------------------------------------------------------
\* Byte arithmetic
\* ------------------------------------------------------------------------
\* s[lo] + .. + s[hi], by halves
RECURSIVE SumRange(_, _, _)
SumRange(s, lo, hi) ==
    IF lo > hi THEN 0
    ELSE IF lo = hi THEN s[lo]
    ELSE LET mid == (lo + hi) \div 2
         IN  SumRange(s, lo, mid) + SumRange(s, mid + 1, hi)

\* for _, b := range data { sum += b }, before the wrap to the sum's width
SumBytes(s) == SumRange(s, 1, Len(s))

\* binary.LittleEndian.PutUint16
PutUint16(n) == << n % 256, (n \div 256) % 256 >>

\* binary.LittleEndian.Uint16 of two bytes
Uint16(lo, hi) == lo + 256 * hi

\* binary.LittleEndian.PutUint32
\* big-endian, as the header line has the silicon id
PutUint32BE(n) ==
    << n \div 16777216, (n \div 65536) % 256, (n \div 256) % 256, n % 256 >>

PutUint32(n) ==
    << n % 256, (n \div 256) % 256, (n \div 65536) % 256, (n \div 16777216) % 256 >>

\* s[from : to] of Go, 0-based, half-open
Slice(s, from, to) == SubSeq(s, from + 1, to)

\* ------------------------------------------------------------------------
\* Checksum engine
\* ------------------------------------------------------------------------
\* sum into uint16, then 1 + (0xFFFF ^ sum), in uint16
calculatePacketChecksum(data) ==
    (1 + (65535 - (SumBytes(data) % 65536))) % 65536

\* sum into byte, then ^sum + 1, in byte
CalculateRowChecksum(data) ==
    ((255 - (SumBytes(data) % 256)) + 1) % 256

\* faulty variant: the high byte of the row number left out of the sum
CalculateRowChecksumWithMetadata_NoRowHigh(dataChecksum, arrayID, rowNum, dataSize) ==
    (dataChecksum + arrayID + (rowNum % 256)
       + ((dataSize \div 256) % 256) + (dataSize % 256)) % 256

CalculateRowChecksumWithMetadata(dataChecksum, arrayID, rowNum, dataSize) ==
    (dataChecksum + arrayID + ((rowNum \div 256) % 256) + (rowNum % 256)
       + ((dataSize \div 256) % 256) + (dataSize % 256)) % 256

\* a ^ b on naturals
RECURSIVE Xor(_, _)
Xor(a, b) ==
    IF a = 0 THEN b
    ELSE IF b = 0 THEN a
    ELSE ((a + b) % 2) + 2 * Xor(a \div 2, b \div 2)

\* the inner loop of calculateCRC16: n shifts of crc with the polynomial
RECURSIVE CRC16Shift(_, _)
CRC16Shift(crc, n) ==
    IF n = 0 THEN crc
    ELSE CRC16Shift(IF crc >= 32768
                    THEN Xor((crc * 2) % 65536, 4129)
                    ELSE (crc * 2) % 65536,
                    n - 1)

\* the outer loop of calculateCRC16 from byte k on; crc is a uint16, and
\* testing that makes TLC evaluate it before it goes on to the next byte
RECURSIVE CRC16From(_, _, _)
CRC16From(crc, data, k) ==
    IF crc \notin 0..65535 \/ k > Len(data) THEN crc
    ELSE CRC16From(CRC16Shift(Xor(crc, data[k] * 256), 8), data, k + 1)

calculateCRC16(data) == CRC16From(65535, data, 1)

\* ------------------------------------------------------------------------
\* Command builders: [err |-> BOOLEAN, frame |-> bytes]
\* ------------------------------------------------------------------------
\* faulty variant: the checksum also sums the SOP byte, while the parser's
\* does not
BuildFrame_WithSOP(cmd, payload) ==
    LET body == <<cmd>> \o PutUint16(Len(payload) % 65536) \o payload
    IN  <<StartOfPacket>> \o body
          \o PutUint16(calculatePacketChecksum(<<StartOfPacket>> \o body))
          \o <<EndOfPacket>>

\* the part every builder repeats: SOP, command, length, payload, checksum, EOP
BuildFrame(cmd, payload) ==
    LET body == <<cmd>> \o PutUint16(Len(payload) % 65536) \o payload
    IN  <<StartOfPacket>> \o body
          \o PutUint16(calculatePacketChecksum(body)) \o <<EndOfPacket>>

BuildEnterBootloaderCmd(key) ==
    IF Len(key) # BootloaderKeySize
    THEN [err |-> TRUE, frame |-> <<>>]
    ELSE [err |-> FALSE, frame |-> BuildFrame(CmdEnterBootloader, key)]

BuildGetFlashSizeCmd(arrayID) ==
    [err |-> FALSE, frame |-> BuildFrame(CmdGetFlashSize, <<arrayID>>)]

BuildProgramRowCmd(arrayID, rowNum, data) ==
    IF Len(data) = 0 \/ Len(data) > MaxDataSize
    THEN [err |-> TRUE, frame |-> <<>>]
    ELSE [err |-> FALSE,
          frame |-> BuildFrame(CmdProgramRow, <<arrayID>> \o PutUint16(rowNum) \o data)]

\* faulty variant: the upper limit is off by one
BuildSendDataCmd_OffByOne(data) ==
    IF Len(data) = 0 \/ Len(data) > MaxDataSize + 1
    THEN [err |-> TRUE, frame |-> <<>>]
    ELSE [err |-> FALSE, frame |-> BuildFrame(CmdSendData, data)]

BuildSendDataCmd(data) ==
    IF Len(data) = 0 \/ Len(data) > MaxDataSize
    THEN [err |-> TRUE, frame |-> <<>>]
    ELSE [err |-> FALSE, frame |-> BuildFrame(CmdSendData, data)]

BuildVerifyRowCmd(arrayID, rowNum) ==
    [err |-> FALSE, frame |-> BuildFrame(CmdVerifyRow, <<arrayID>> \o PutUint16(rowNum))]

BuildVerifyChecksumCmd ==
    [err |-> FALSE, frame |-> BuildFrame(CmdVerifyChecksum, <<>>)]

BuildExitBootloaderCmd ==
    [err |-> FALSE, frame |-> BuildFrame(CmdExitBootloader, <<>>)]

BuildEraseRowCmd(arrayID, rowNum) ==
    [err |-> FALSE, frame |-> BuildFrame(CmdEraseRow, <<arrayID>> \o PutUint16(rowNum))]

BuildSyncBootloaderCmd ==
    [err |-> FALSE, frame |-> BuildFrame(CmdSyncBootloader, <<>>)]

BuildGetMetadataCmd(appNum) ==
    [err |-> FALSE, frame |-> BuildFrame(CmdGetMetadata, <<appNum>>)]

BuildGetAppStatusCmd(appNum) ==
    [err |-> FALSE, frame |-> BuildFrame(CmdGetAppStatus, <<appNum>>)]

BuildSetActiveAppCmd(appNum) ==
    [err |-> FALSE, frame |-> BuildFrame(CmdSetActiveApp, <<appNum>>)]

\* ------------------------------------------------------------------------
\* Response parsing: [err |-> "" or the failure, status, data]
\* ------------------------------------------------------------------------
ParseFail(e) == [err |-> e, status |-> 0, data |-> <<>>]

\* faulty variant: the checksum field is not compared
ParseResponse_NoChecksum(frame) ==
    IF Len(frame) < MinFrameSize THEN ParseFail("frame too short")
    ELSE IF frame[1] # StartOfPacket THEN ParseFail("invalid start of packet")
    ELSE IF frame[Len(frame)] # EndOfPacket THEN ParseFail("invalid end of packet")
    ELSE
      LET dataLen == Uint16(frame[3], frame[4])
          expectedLen == (MinFrameSize + dataLen) % 65536
      IN  IF Len(frame) # expectedLen THEN ParseFail("frame length mismatch")
          ELSE [err |-> "", status |-> frame[2],
                data |-> IF dataLen > 0 THEN Slice(frame, 4, 4 + dataLen) ELSE <<>>]

ParseResponse(frame) ==
    IF Len(frame) < MinFrameSize THEN ParseFail("frame too short")
    ELSE IF frame[1] # StartOfPacket THEN ParseFail("invalid start of packet")
    ELSE IF frame[Len(frame)] # EndOfPacket THEN ParseFail("invalid end of packet")
    ELSE
      LET dataLen == Uint16(frame[3], frame[4])
          \* MinFrameSize + dataLen is a uint16 addition
          expectedLen == (MinFrameSize + dataLen) % 65536
      IN  IF Len(frame) # expectedLen THEN ParseFail("frame length mismatch")
          ELSE
            LET checksumExpected == Uint16(frame[Len(frame) - 2], frame[Len(frame) - 1])
                checksumActual == calculatePacketChecksum(Slice(frame, 1, Len(frame) - 3))
            IN  IF checksumExpected # checksumActual THEN ParseFail("checksum mismatch")
                ELSE [err |-> "", status |-> frame[2],
                      data |-> IF dataLen > 0 THEN Slice(frame, 4, 4 + dataLen) ELSE <<>>]

\* [err, SiliconID, SiliconRev]
ParseEnterBootloaderResponse(data) ==
    IF Len(data) # EnterBootloaderResponseSize
    THEN [err |-> TRUE, SiliconID |-> 0, SiliconRev |-> 0]
    ELSE [err |-> FALSE,
          SiliconID |-> data[1] + 256 * data[2] + 65536 * data[3] + 16777216 * data[4],
          SiliconRev |-> data[5]]

\* [err, StartRow, EndRow]
ParseGetFlashSizeResponse(data) ==
    IF Len(data) # GetFlashSizeResponseSize
    THEN [err |-> TRUE, StartRow |-> 0, EndRow |-> 0]
    ELSE [err |-> FALSE, StartRow |-> Uint16(data[1], data[2]),
          EndRow |-> Uint16(data[3], data[4])]

\* faulty variant: only an empty response is refused
ParseVerifyRowResponse_AtLeastOne(data) ==
    IF Len(data) < VerifyRowResponseSize
    THEN [err |-> TRUE, checksum |-> 0]
    ELSE [err |-> FALSE, checksum |-> data[1]]

\* [err, checksum]
ParseVerifyRowResponse(data) ==
    IF Len(data) # VerifyRowResponseSize
    THEN [err |-> TRUE, checksum |-> 0]
    ELSE [err |-> FALSE, checksum |-> data[1]]

\* ParseVerifyRowResponse with the lenient parameter of release 0.5.1: an
\* empty response is taken as checksum 0 in lenient mode
ParseVerifyRowResponseLenient(data, lenient) ==
    IF lenient /\ Len(data) = 0
    THEN [err |-> FALSE, checksum |-> 0]
    ELSE ParseVerifyRowResponse(data)

\* faulty variant: the validity byte is not looked at
ParseVerifyChecksumResponse_AnyByte(data) ==
    IF Len(data) # VerifyChecksumResponseSize
    THEN [err |-> TRUE, valid |-> FALSE]
    ELSE [err |-> FALSE, valid |-> TRUE]

\* [err, valid]
ParseVerifyChecksumResponse(data) ==
    IF Len(data) # VerifyChecksumResponseSize
    THEN [err |-> TRUE, valid |-> FALSE]
    ELSE [err |-> FALSE, valid |-> data[1] # 0]

\* ------------------------------------------------------------------------
\* Response reader: the frame extraction of sendCommandWithResponse
\* ------------------------------------------------------------------------
\* response[k] of the zero-filled read buffer holding the bytes read
BufAt(raw, k) == IF k < Len(raw) THEN raw[k + 1] ELSE 0

ReadFail(e) == [err |-> e, frame |-> <<>>]

\* raw: the n bytes the transport's Read returned
ExtractFrame(raw) ==
    LET n == Len(raw) IN
    IF n < MinFrameSize THEN ReadFail("response too short")
    ELSE
      LET offset == IF BufAt(raw, 0) # StartOfPacket /\ n > MinFrameSize
                       /\ BufAt(raw, 1) = StartOfPacket
                    THEN 1 ELSE 0
      IN
      IF BufAt(raw, offset) # StartOfPacket THEN ReadFail("invalid start of packet")
      ELSE
        LET dataLen == Uint16(BufAt(raw, offset + 2), BufAt(raw, offset + 3))
            \* protocol.MinFrameSize + dataLen is a uint16 addition
            frameSize == (MinFrameSize + dataLen) % 65536
        IN
        IF n < offset + frameSize THEN ReadFail("incomplete frame")
        ELSE IF offset + frameSize - 1 < 0 THEN ReadFail("panic: index out of range")
        ELSE IF BufAt(raw, offset + frameSize - 1) # EndOfPacket
             THEN ReadFail("invalid end of packet")
        ELSE [err |-> "", frame |-> Slice(raw, offset, offset + frameSize)]

\* what a caller of sendCommandWithResponse followed by ParseResponse sees of
\* one Read outcome rd = [ioerr, raw]: [err, status, data]
Exchange(rd) ==
    IF rd.ioerr THEN ParseFail("read response")
    ELSE LET fr == ExtractFrame(rd.raw)
         IN  IF fr.err # "" THEN ParseFail(fr.err) ELSE ParseResponse(fr.frame)

\* ------------------------------------------------------------------------
\* The .cyacd parser. A line is a sequence of characters, a file the sequence
\* of lines the scanner delivers.
\* ------------------------------------------------------------------------
HeaderLength == 12

MinimumRowLength == 12

MinimumRowDataBytes == 6

RowHeaderSize == 5

RowChecksumSize == 1

\* bufio.MaxScanTokenSize: the scanner of ParseReader gives up on a line that
\* does not fit its buffer
MaxScanTokenSize == 65536

UpperHex == << "0", "1", "2", "3", "4", "5", "6", "7", "8", "9",
               "A", "B", "C", "D", "E", "F" >>

LowerHex == << "0", "1", "2", "3", "4", "5", "6", "7", "8", "9",
               "a", "b", "c", "d", "e", "f" >>

IsHexChar(c) == \E v \in 1..16 : UpperHex[v] = c \/ LowerHex[v] = c

\* the value of a hex digit, either case
FromHexChar(c) == (CHOOSE v \in 1..16 : UpperHex[v] = c \/ LowerHex[v] = c) - 1

\* hex.DecodeString: [err, bytes]
HexDecode(line) ==
    IF Len(line) % 2 = 1 \/ \E k \in 1..Len(line) : ~IsHexChar(line[k])
    THEN [err |-> TRUE, bytes |-> <<>>]
    ELSE [err |-> FALSE,
          bytes |-> [k \in 1..(Len(line) \div 2) |->
                       16 * FromHexChar(line[2 * k - 1]) + FromHexChar(line[2 * k])]]

\* the row checksum of the parser: 8-bit two's complement of the byte sum
calculateRowChecksum(bytes) == (256 - (SumBytes(bytes) % 256)) % 256

\* the nil *Firmware
NoFirmware ==
    [isNil |-> TRUE, SiliconID |-> 0, SiliconRev |-> 0, ChecksumType |-> 0, Rows |-> <<>>]

NoRow == [ArrayID |-> 0, RowNum |-> 0, Size |-> 0, Data |-> <<>>, Checksum |-> 0]

\* faulty variant: the checksum type is not checked
parseHeader_AnyType(line) ==
    IF Len(line) # HeaderLength
    THEN [err |-> "invalid header length", fw |-> NoFirmware]
    ELSE LET d == HexDecode(line)
         IN  IF d.err
             THEN [err |-> "invalid hex data", fw |-> NoFirmware]
             ELSE [err |-> "",
                   fw |-> [isNil |-> FALSE,
                           SiliconID |-> 16777216 * d.bytes[1] + 65536 * d.bytes[2]
                                           + 256 * d.bytes[3] + d.bytes[4],
                           SiliconRev |-> d.bytes[5],
                           ChecksumType |-> d.bytes[6],
                           Rows |-> <<>>]]

\* [err, fw]
parseHeader(line) ==
    IF Len(line) # HeaderLength
    THEN [err |-> "invalid header length", fw |-> NoFirmware]
    ELSE LET d == HexDecode(line)
         IN  IF d.err
             THEN [err |-> "invalid hex data", fw |-> NoFirmware]
             ELSE IF d.bytes[6] # 0 /\ d.bytes[6] # 1
             THEN [err |-> "invalid checksum type", fw |-> NoFirmware]
             ELSE [err |-> "",
                   fw |-> [isNil |-> FALSE,
                           SiliconID |-> 16777216 * d.bytes[1] + 65536 * d.bytes[2]
                                           + 256 * d.bytes[3] + d.bytes[4],
                           SiliconRev |-> d.bytes[5],
                           ChecksumType |-> d.bytes[6],
                           Rows |-> <<>>]]

\* faulty variant: the checksum byte is not verified
RowOfBytes_NoChecksum(bytes, rowNum, dataLen) ==
    IF Len(bytes) # (RowHeaderSize + RowChecksumSize + dataLen) % 65536
    THEN [err |-> "data length mismatch", row |-> NoRow]
    ELSE [err |-> "",
          row |-> [ArrayID |-> bytes[1], RowNum |-> rowNum, Size |-> dataLen,
                   Data |-> Slice(bytes, RowHeaderSize, (RowHeaderSize + dataLen) % 65536),
                   Checksum |-> bytes[Len(bytes)]]]

\* what parseRow and parseIntelHexRow do with the decoded bytes, rowNum and
\* dataLen already read: the length check in uint16 arithmetic, the checksum
\* over every byte before the last, the Row
RowOfBytes(bytes, rowNum, dataLen) ==
    IF Len(bytes) # (RowHeaderSize + RowChecksumSize + dataLen) % 65536
    THEN [err |-> "data length mismatch", row |-> NoRow]
    ELSE IF bytes[Len(bytes)] # calculateRowChecksum(SubSeq(bytes, 1, Len(bytes) - 1))
    THEN [err |-> "checksum mismatch", row |-> NoRow]
    ELSE [err |-> "",
          row |-> [ArrayID |-> bytes[1], RowNum |-> rowNum, Size |-> dataLen,
                   Data |-> Slice(bytes, RowHeaderSize, (RowHeaderSize + dataLen) % 65536),
                   Checksum |-> bytes[Len(bytes)]]]

\* faulty variant: the checksum is verified over the data bytes alone
parseRow_DataOnly(line) ==
    IF Len(line) < MinimumRowLength
    THEN [err |-> "row too short", row |-> NoRow]
    ELSE LET d == HexDecode(line)
         IN  IF d.err
             THEN [err |-> "invalid hex data", row |-> NoRow]
             ELSE LET dataLen == Uint16(d.bytes[4], d.bytes[5])
                      n == Len(d.bytes)
                  IN  IF n # RowHeaderSize + RowChecksumSize + dataLen
                      THEN [err |-> "data length mismatch", row |-> NoRow]
                      ELSE IF d.bytes[n] # calculateRowChecksum(SubSeq(d.bytes, 6, n - 1))
                      THEN [err |-> "checksum mismatch", row |-> NoRow]
                      ELSE [err |-> "",
                            row |-> [ArrayID |-> d.bytes[1],
                                     RowNum |-> Uint16(d.bytes[2], d.bytes[3]),
                                     Size |-> dataLen,
                                     Data |-> SubSeq(d.bytes, 6, n - 1),
                                     Checksum |-> d.bytes[n]]]

\* [err, row]; rowNum and dataLen little-endian
parseRow(line) ==
    IF Len(line) < MinimumRowLength
    THEN [err |-> "row too short", row |-> NoRow]
    ELSE LET d == HexDecode(line)
         IN  IF d.err
             THEN [err |-> "invalid hex data", row |-> NoRow]
             ELSE IF Len(d.bytes) < MinimumRowDataBytes
             THEN [err |-> "row data too short", row |-> NoRow]
             ELSE RowOfBytes(d.bytes, Uint16(d.bytes[2], d.bytes[3]),
                             Uint16(d.bytes[4], d.bytes[5]))

\* faulty variant: the line is read as a 5-byte Intel HEX header and raw data:
\* the array id is 0, the checksum is computed, nothing is validated
parseIntelHexRow_EofHeader(line) ==
    IF Len(line) < 1 \/ line[1] # ":"
    THEN [err |-> "hybrid row must start with ':'", row |-> NoRow]
    ELSE LET rest == Tail(line)
         IN  IF Len(rest) < 12
             THEN [err |-> "hybrid row too short", row |-> NoRow]
             ELSE LET h == HexDecode(SubSeq(rest, 1, 10))
                      d == HexDecode(SubSeq(rest, 11, Len(rest)))
                  IN  IF h.err
                      THEN [err |-> "invalid Intel HEX header", row |-> NoRow]
                      ELSE IF d.err
                      THEN [err |-> "invalid hex data", row |-> NoRow]
                      ELSE [err |-> "",
                            row |-> [ArrayID |-> 0,
                                     RowNum |-> Uint16(h.bytes[3], h.bytes[2]),
                                     Size |-> Len(d.bytes),
                                     Data |-> d.bytes,
                                     Checksum |-> calculateRowChecksum(d.bytes)]]

\* [err, row]; the line starts with ':', rowNum and dataLen are big-endian
parseIntelHexRow(line) ==
    IF Len(line) < 1 \/ line[1] # ":"
    THEN [err |-> "hybrid row must start with ':'", row |-> NoRow]
    ELSE LET rest == Tail(line)
         IN  IF Len(rest) < MinimumRowLength
             THEN [err |-> "hybrid row too short", row |-> NoRow]
             ELSE LET d == HexDecode(rest)
                  IN  IF d.err
                      THEN [err |-> "invalid hex data", row |-> NoRow]
                      ELSE IF Len(d.bytes) < MinimumRowDataBytes
                      THEN [err |-> "row data too short", row |-> NoRow]
                      ELSE RowOfBytes(d.bytes, Uint16(d.bytes[3], d.bytes[2]),
                                      Uint16(d.bytes[5], d.bytes[4]))

\* scanner.Scan() fails on line k: the line does not fit the buffer
ScanFails(lines, k) == Len(lines[k]) >= MaxScanTokenSize

ParseError(e, n) == [kind |-> "done", err |-> e, line |-> n, fw |-> NoFirmware]

\* the row loop of ParseReader from line k on, rows the rows appended so far
RECURSIVE ParseRows(_, _, _, _)
ParseRows(lines, k, fwHeader, rows) ==
    IF k > Len(lines)
    THEN IF Len(rows) = 0
         THEN ParseError("no rows found in file", 0)
         ELSE [kind |-> "done", err |-> "", line |-> 0,
               fw |-> [fwHeader EXCEPT !.Rows = rows]]
    ELSE IF ScanFails(lines, k)
    THEN ParseError("failed to read file", 0)
    ELSE IF lines[k] = <<>>
    THEN ParseRows(lines, k + 1, fwHeader, rows)
    ELSE LET r == IF lines[k][1] = ":"
                  THEN parseIntelHexRow(lines[k])
                  ELSE parseRow(lines[k])
         IN  IF r.err # ""
             THEN ParseError(r.err, k)
             ELSE ParseRows(lines, k + 1, fwHeader, Append(rows, r.row))

ParseReader(lines) ==
    IF Len(lines) = 0
    THEN ParseError("empty file", 0)
    ELSE IF ScanFails(lines, 1)
    THEN ParseError("failed to read header", 0)
    ELSE LET h == parseHeader(lines[1])
         IN  IF h.err # ""
             THEN ParseError(h.err, 1)
             ELSE ParseRows(lines, 2, h.fw, <<>>)

\* ------------------------------------------------------------------------
\* The environment: firmware images, keys, configurations, device replies
\* ------------------------------------------------------------------------
SiliconA == 513147562

SiliconB == 305419896

\* (array id, row number) of the rows a firmware is made of
RowPlaces == { <<0, 0>>, <<1, 258>> }

\* row data of length n: bytes 1, 2, .., n
DataOfLen(n) == [k \in 1..n |-> k]

Row(a, r, n, c) == [ArrayID |-> a, RowNum |-> r, Data |-> DataOfLen(n), Checksum |-> c]

\* the checksum byte a row line of a .cyacd file carries (parseRow): over the
\* header bytes and the data
FileChecksum(a, r, n) ==
    CalculateRowChecksum(<<a>> \o PutUint16(r) \o PutUint16(n) \o DataOfLen(n))

Rows ==
    { Row(p[1], p[2], n, FileChecksum(p[1], p[2], n)) :
        p \in RowPlaces, n \in 0..MaxDataLen }

RowSeqs == UNION { [1..k -> Rows] : k \in 0..MaxRows }

NilFirmware == [isNil |-> TRUE, SiliconID |-> 0, ChecksumType |-> 0, Rows |-> <<>>]

Firmwares ==
    { [isNil |-> FALSE, SiliconID |-> SiliconA, ChecksumType |-> ChecksumBasicSum, Rows |-> rs] :
        rs \in RowSeqs }
    \cup {NilFirmware}

GoodKey == <<10, 27, 44, 61, 78, 95>>

Keys == {GoodKey, <<1, 2, 3, 4, 5>>}

\* retry counts a caller configures: WithRetries(0), and the default
RetryCounts == {0, DefaultRetries}

\* Config after New: WithChunkSize keeps ChunkSize in 1..256, WithRetries
\* keeps Retries >= 0
Configs ==
    [ChunkSize : 1..MaxChunk, VerifyAfterProgram : BOOLEAN, Retries : RetryCounts]

defaultConfig ==
    [ChunkSize |-> DefaultChunkSize, VerifyAfterProgram |-> TRUE, Retries |-> DefaultRetries]

\* faulty variant: the size is not checked
WithChunkSize_Unchecked(c, size) == [c EXCEPT !.ChunkSize = size]

WithChunkSize(c, size) ==
    IF size > 0 /\ size <= 256 THEN [c EXCEPT !.ChunkSize = size] ELSE c

\* New with at most a WithChunkSize option: request is <<>> or <<size>>
New(request) ==
    IF request = <<>> THEN defaultConfig ELSE WithChunkSize(defaultConfig, request[1])

\* chunk sizes WithChunkSize refuses
RefusedChunkSizes == {-1, 0, 257}

\* one-row firmware images of either checksum type, the row as long as the
\* default chunk, one byte longer, and as long as two chunks
DefaultFirmwares ==
    { [isNil |-> FALSE, SiliconID |-> SiliconA, ChecksumType |-> t,
       Rows |-> << Row(0, 0, n, FileChecksum(0, 0, n)) >>] :
        t \in {ChecksumBasicSum, ChecksumCRC16},
        n \in {DefaultChunkSize, DefaultChunkSize + 1, 2 * DefaultChunkSize} }

\* buildResponseFrame of the test device
RespFrame(statusCode, d) ==
    LET body == <<statusCode>> \o PutUint16(Len(d)) \o d
    IN  <<StartOfPacket>> \o body
          \o PutUint16(calculatePacketChecksum(body)) \o <<EndOfPacket>>

FlashRanges == { <<0, 511>>, <<0, 257>>, <<1, 511>> }

\* outcomes of one transport Read: an I/O error, or n bytes
ReadOutcomes(raws) ==
    { [ioerr |-> TRUE, raw |-> <<>>] } \cup { [ioerr |-> FALSE, raw |-> r] : r \in raws }

\* a read that returned nothing, and a status-only success frame where data
\* is due
JunkReads == { <<>>, <<StartOfPacket, 0, 0, 0, 0, 0, EndOfPacket>> }

EnterReplies ==
    { RespFrame(StatusSuccess, PutUint32(id) \o <<0, 1, 30, 0>>) : id \in {SiliconA, SiliconB} }
    \cup { RespFrame(ErrKey, <<>>) } \cup JunkReads

FlashSizeReplies ==
    { RespFrame(StatusSuccess, PutUint16(rg[1]) \o PutUint16(rg[2])) : rg \in FlashRanges }
    \cup { RespFrame(ErrRow, <<>>) }

ProgramRowReplies == { RespFrame(StatusSuccess, <<>>), RespFrame(ErrRow, <<>>) }

VerifyRowReplies(row) ==
    { RespFrame(StatusSuccess, <<b>>) :
        b \in { row.Checksum,
                CalculateRowChecksumWithMetadata(row.Checksum, row.ArrayID,
                                                 row.RowNum, Len(row.Data)) } }
    \cup { RespFrame(StatusSuccess, <<>>), RespFrame(ErrChecksum, <<>>) }

VerifyChecksumReplies ==
    { RespFrame(StatusSuccess, <<1>>), RespFrame(StatusSuccess, <<0>>),
      RespFrame(ErrChecksum, <<>>) }

\* ------------------------------------------------------------------------
\* State
\* ------------------------------------------------------------------------
VARIABLES
    fw,            \* the firmware passed to Program
    key,           \* the key passed to Program
    config,        \* Programmer.config
    ctxErr,        \* ctx.Err(): "" | "Canceled" | "DeadlineExceeded"
    ctxAtCall,     \* ctx.Err() at the moment Program was called
    pc,            \* position of the Program call
    rowIdx,        \* i of the row loop (0-based)
    data,          \* programRow's remaining data slice
    bytesWritten,  \* Program's bytesWritten
    wire,          \* frames the transport accepted, in write order
    reads,         \* outcomes of the transport's Read calls, in order
    awaiting,      \* a frame was written and no response parsed since
    reports,       \* Progress values delivered to the callback, in order
    result,        \* what Program returned
    codecOrigin,   \* the frame codec call made: what the frame was built from
    codecFrame,    \* the frame built, or the bytes handed to ParseResponse
    codecParsed,   \* ParseResponse(codecFrame)
    chunkRequest,  \* the size New's caller handed to WithChunkSize: <<size>>, or <<>>
    verifyRowOut,  \* what ParseVerifyRowResponse made of codecParsed.data
    fileLines,     \* the lines of the reader handed to ParseReader
    parseOut,      \* what ParseReader returned
    calls,         \* the calls running on one shared Programmer, by caller
    devReplies,    \* responses the shared transport holds for Read, oldest first
    readRaw,       \* the bytes a transport Read returned to sendCommandWithResponse
    readOut        \* what sendCommandWithResponse and ParseResponse made of readRaw

\* the state of a frame codec call
codecVars == << codecOrigin, codecFrame, codecParsed >>

\* the state of a ParseReader call
parserVars == << fileLines, parseOut >>

\* the state of a Program call
programVars == << fw, key, config, ctxErr, ctxAtCall, pc, rowIdx, data, bytesWritten,
                  wire, reads, awaiting, reports, result >>

\* the state of a typed decoder call
decoderVars == << verifyRowOut >>

\* the options New was called with
newVars == << chunkRequest >>

\* the state of the calls sharing one Programmer
callVars == << calls, devReplies >>

\* the state of one response read
readerVars == << readRaw, readOut >>

\* the state of the calls made apart from Program
otherVars == << newVars, codecVars, decoderVars, parserVars, callVars, readerVars >>

\* what a frame codec call leaves alone
nonCodecVars == << programVars, newVars, decoderVars, parserVars, callVars, readerVars >>

vars == << programVars, otherVars >>

Pending == [kind |-> "pending", wrap |-> "", args |-> <<>>]

Success == [kind |-> "nil", wrap |-> "", args |-> <<>>]

\* an error value: kind is what errors.As / errors.Is finds, wrap the
\* fmt.Errorf context Program adds
Error(kind, wrap, args) == [kind |-> kind, wrap |-> wrap, args |-> args]

NumRows == Len(fw.Rows)

\* no ParseReader call made
NotParsed == [kind |-> "idle", err |-> "", line |-> 0, fw |-> NoFirmware]

\* ParseVerifyRowResponse not called
NotDecoded == [called |-> FALSE, lenient |-> FALSE, err |-> FALSE, checksum |-> 0]

\* no codec call made
CodecIdle == [kind |-> "idle", code |-> 0, payload |-> <<>>]

\* faulty variant: the rows are taken in the order of their row numbers
CurRow_Sorted ==
    LET before(j, i) ==
            \/ fw.Rows[j].RowNum < fw.Rows[i].RowNum
            \/ fw.Rows[j].RowNum = fw.Rows[i].RowNum /\ j < i
        rank(i) == Cardinality({ j \in 1..NumRows : before(j, i) }) + 1
    IN  fw.Rows[CHOOSE i \in 1..NumRows : rank(i) = rowIdx + 1]

\* row := fw.Rows[i] of the row loop
CurRow == fw.Rows[rowIdx + 1]

Report(phase, cur, num, den, bytes) ==
    [Phase |-> phase, CurrentRow |-> cur, TotalRows |-> NumRows,
     PctNum |-> num, PctDen |-> den, BytesWritten |-> bytes]

\* no codec call made yet
CodecNotCalled ==
    /\ codecOrigin = CodecIdle
    /\ codecFrame = <<>>
    /\ codecParsed = ParseFail("")
    /\ verifyRowOut = NotDecoded

\* no ParseReader call made yet
ParserNotCalled ==
    /\ fileLines = <<>>
    /\ parseOut = NotParsed

\* the goroutines that share one Programmer
Callers == {1, 2}

\* a call: its position, the exchange it is at, whose commands the responses
\* it parsed answered, and the error it returned
CallAt(at) == [pc |-> at, step |-> 1, got |-> <<>>, err |-> ""]

\* no call on a shared Programmer made yet
CallsNotStarted ==
    /\ calls = [c \in Callers |-> CallAt("idle")]
    /\ devReplies = <<>>

\* no response read yet
NotRead == [kind |-> "idle", err |-> "", frame |-> <<>>, parsed |-> ParseFail("")]

ReaderNotCalled ==
    /\ readRaw = <<>>
    /\ readOut = NotRead

Init ==
    /\ fw \in Firmwares
    /\ key \in Keys
    /\ config \in Configs
    /\ chunkRequest = << config.ChunkSize >>
    /\ ctxErr = ""
    /\ ctxAtCall = ""
    /\ pc = "start"
    /\ rowIdx = 0
    /\ data = <<>>
    /\ bytesWritten = 0
    /\ wire = <<>>
    /\ reads = <<>>
    /\ awaiting = FALSE
    /\ reports = <<>>
    /\ result = Pending
    /\ CodecNotCalled
    /\ ParserNotCalled
    /\ CallsNotStarted
    /\ ReaderNotCalled

\* faulty variant: the silicon id comparison left out
DeviceMatches_Skipped(id) == TRUE

\* if deviceInfo.SiliconID != fw.SiliconID: the device is the firmware's
DeviceMatches(id) == id = fw.SiliconID

\* faulty variant: the row loop never looks at the context
Cancelled_Never == FALSE

\* ctx.Err() != nil at the head of the row loop
Cancelled == ctxErr # ""

\* faulty variant: rows are verified whatever the configuration says
VerifyEnabled_Always == TRUE

\* faulty variant: only the first row is verified
VerifyEnabled_FirstRowOnly == config.VerifyAfterProgram /\ rowIdx = 0

\* p.config.VerifyAfterProgram
VerifyEnabled == config.VerifyAfterProgram

\* faulty variant: the chunk loop also runs when the remainder is exactly one chunk
NeedsChunk_Inclusive(d) == Len(d) >= config.ChunkSize

\* the condition of programRow's chunk loop
NeedsChunk(d) == Len(d) > config.ChunkSize

\* Program returns err
Return(err) ==
    /\ result' = err
    /\ pc' = "done"

\* ------------------------------------------------------------------------
\* The caller's context
\* ------------------------------------------------------------------------
CtxCancel ==
    /\ pc # "done"
    /\ ctxErr = ""
    /\ ctxErr' = "Canceled"
    /\ UNCHANGED << otherVars, fw, key, config, ctxAtCall, pc, rowIdx, data, bytesWritten,
                    wire, reads, awaiting, reports, result >>

CtxDeadline ==
    /\ pc # "done"
    /\ ctxErr = ""
    /\ ctxErr' = "DeadlineExceeded"
    /\ UNCHANGED << otherVars, fw, key, config, ctxAtCall, pc, rowIdx, data, bytesWritten,
                    wire, reads, awaiting, reports, result >>

\* ------------------------------------------------------------------------
\* Program
\* ------------------------------------------------------------------------
\* faulty variant: Program goes to EnterBootloader without looking at its
\* arguments
ProgramBegin_NoChecks ==
    /\ pc = "start"
    /\ ctxAtCall' = ctxErr
    /\ reports' = Append(reports, Report("entering", 0, 0, 1, 0))
    /\ pc' = "enter_write"
    /\ UNCHANGED << otherVars, fw, key, config, ctxErr, rowIdx, data, bytesWritten,
                    wire, reads, awaiting, result >>

\* entry of Program up to the call of EnterBootloader
ProgramBegin ==
    /\ pc = "start"
    /\ ctxAtCall' = ctxErr
    /\ IF fw.isNil
       THEN /\ Return(Error("firmware cannot be nil", "", <<>>))
            /\ UNCHANGED reports
       ELSE IF Len(key) # BootloaderKeySize
       THEN /\ Return(Error("key length", "", <<>>))
            /\ UNCHANGED reports
       ELSE /\ reports' = Append(reports, Report("entering", 0, 0, 1, 0))
            /\ pc' = "enter_write"
            /\ UNCHANGED result
    /\ UNCHANGED << otherVars, fw, key, config, ctxErr, rowIdx, data, bytesWritten,
                    wire, reads, awaiting >>

\* device.Write(frame) inside sendCommandWithResponse: on success the frame is
\* on the wire and the call goes on to Read at pc next
WriteCommand(build, wrap, next) ==
    IF build.err
    THEN /\ Return(Error("invalid argument", wrap, <<>>))
         /\ UNCHANGED << wire, awaiting >>
    ELSE \E ok \in BOOLEAN :
           IF ok
           THEN /\ wire' = Append(wire, build.frame)
                /\ awaiting' = TRUE
                /\ pc' = next
                /\ UNCHANGED result
           ELSE /\ Return(Error("write command", wrap, <<>>))
                /\ UNCHANGED << wire, awaiting >>

EnterBootloaderWrite ==
    /\ pc = "enter_write"
    /\ WriteCommand(BuildEnterBootloaderCmd(key), "enter bootloader", "enter_read")
    /\ UNCHANGED << otherVars, fw, key, config, ctxErr, ctxAtCall, rowIdx, data, bytesWritten,
                    reads, reports >>

\* faulty variant: a response that cannot be read makes Program send
\* EnterBootloader again when retries are configured
EnterBootloaderRead_Retry ==
    /\ pc = "enter_read"
    /\ \E rd \in ReadOutcomes(EnterReplies) :
         LET x == Exchange(rd)
             info == ParseEnterBootloaderResponse(x.data)
         IN
         /\ reads' = Append(reads, rd)
         /\ awaiting' = IF x.err = "" THEN FALSE ELSE awaiting
         /\ IF x.err # "" /\ config.Retries > 0
            THEN pc' = "enter_write" /\ UNCHANGED << reports, result >>
            ELSE IF x.err # "" \/ x.status # StatusSuccess \/ info.err
                    \/ info.SiliconID # fw.SiliconID
            THEN Return(Error("failed", "enter bootloader", <<>>)) /\ UNCHANGED reports
            ELSE /\ reports' = Append(reports, Report("programming", 0, 2, 1, 0))
                 /\ pc' = IF NumRows > 0 THEN "flash_write" ELSE "row_head"
                 /\ UNCHANGED result
    /\ UNCHANGED << otherVars, fw, key, config, ctxErr, ctxAtCall, rowIdx, data, bytesWritten, wire >>

\* the rest of EnterBootloader, then Program up to GetFlashSize or the row loop
EnterBootloaderRead ==
    /\ pc = "enter_read"
    /\ \E rd \in ReadOutcomes(EnterReplies) :
         LET x == Exchange(rd)
             info == ParseEnterBootloaderResponse(x.data)
         IN
         /\ reads' = Append(reads, rd)
         /\ awaiting' = IF x.err = "" THEN FALSE ELSE awaiting
         /\ IF x.err # ""
            THEN Return(Error(x.err, "enter bootloader", <<>>)) /\ UNCHANGED reports
            ELSE IF x.status # StatusSuccess
            THEN /\ Return(Error("ProtocolError", "enter bootloader",
                                 <<"enter bootloader", x.status>>))
                 /\ UNCHANGED reports
            ELSE IF info.err
            THEN /\ Return(Error("invalid data length", "enter bootloader", <<>>))
                 /\ UNCHANGED reports
            ELSE IF ~DeviceMatches(info.SiliconID)
            THEN /\ Return(Error("DeviceMismatchError", "",
                                 <<fw.SiliconID, info.SiliconID>>))
                 /\ UNCHANGED reports
            ELSE /\ reports' = Append(reports, Report("programming", 0, 2, 1, 0))
                 /\ pc' = IF NumRows > 0 THEN "flash_write" ELSE "row_head"
                 /\ UNCHANGED result
    /\ UNCHANGED << otherVars, fw, key, config, ctxErr, ctxAtCall, rowIdx, data, bytesWritten, wire >>

\* faulty variant: the flash size is asked for the last row's array
GetFlashSizeWrite_LastRow ==
    /\ pc = "flash_write"
    /\ WriteCommand(BuildGetFlashSizeCmd(fw.Rows[NumRows].ArrayID), "get flash size",
                    "flash_read")
    /\ UNCHANGED << otherVars, fw, key, config, ctxErr, ctxAtCall, rowIdx, data, bytesWritten,
                    reads, reports >>

GetFlashSizeWrite ==
    /\ pc = "flash_write"
    /\ WriteCommand(BuildGetFlashSizeCmd(fw.Rows[1].ArrayID), "get flash size", "flash_read")
    /\ UNCHANGED << otherVars, fw, key, config, ctxErr, ctxAtCall, rowIdx, data, bytesWritten,
                    reads, reports >>

\* faulty variant: only the first row is validated against the range
FirstOutOfRange_FirstRowOnly(rows, k, lo, hi) ==
    IF Len(rows) >= 1 /\ (rows[1].RowNum < lo \/ rows[1].RowNum > hi) THEN 1 ELSE 0

\* index of the first row outside [lo, hi], 0 if none
RECURSIVE FirstOutOfRange(_, _, _, _)
FirstOutOfRange(rows, k, lo, hi) ==
    IF k > Len(rows) THEN 0
    ELSE IF rows[k].RowNum < lo \/ rows[k].RowNum > hi THEN k
    ELSE FirstOutOfRange(rows, k + 1, lo, hi)

\* the rest of GetFlashSize, then the range validation of all rows
GetFlashSizeRead ==
    /\ pc = "flash_read"
    /\ \E rd \in ReadOutcomes(FlashSizeReplies) :
         LET x == Exchange(rd)
             flashSize == ParseGetFlashSizeResponse(x.data)
             bad == FirstOutOfRange(fw.Rows, 1, flashSize.StartRow, flashSize.EndRow)
         IN
         /\ reads' = Append(reads, rd)
         /\ awaiting' = IF x.err = "" THEN FALSE ELSE awaiting
         /\ IF x.err # ""
            THEN Return(Error(x.err, "get flash size", <<>>))
            ELSE IF x.status # StatusSuccess
            THEN Return(Error("ProtocolError", "get flash size",
                              <<"get flash size", x.status>>))
            ELSE IF flashSize.err
            THEN Return(Error("invalid data length", "get flash size", <<>>))
            ELSE IF bad # 0
            THEN Return(Error("RowOutOfRangeError", "",
                              << fw.Rows[bad].ArrayID, fw.Rows[bad].RowNum,
                                 flashSize.StartRow, flashSize.EndRow >>))
            ELSE pc' = "row_head" /\ UNCHANGED result
    /\ UNCHANGED << otherVars, fw, key, config, ctxErr, ctxAtCall, rowIdx, data, bytesWritten,
                    wire, reports >>

\* head of the row loop: its exit to the verify phase, the ctx.Err() check, and
\* the entry of programRow
RowLoopHead ==
    /\ pc = "row_head"
    /\ IF rowIdx >= NumRows
       THEN /\ reports' = Append(reports, Report("verifying", NumRows, 92, 1, 0))
            /\ pc' = "vc_write"
            /\ UNCHANGED << data, result >>
       ELSE IF Cancelled
       THEN /\ Return(Error(ctxErr, "cancelled", <<>>))
            /\ UNCHANGED << data, reports >>
       ELSE /\ data' = CurRow.Data
            /\ pc' = "program_row"
            /\ UNCHANGED << reports, result >>
    /\ UNCHANGED << otherVars, fw, key, config, ctxErr, ctxAtCall, rowIdx, bytesWritten,
                    wire, reads, awaiting >>

\* one iteration of programRow's chunk loop: sendData writes and does not read
SendDataWrite ==
    /\ pc = "program_row"
    /\ NeedsChunk(data)
    /\ LET chunk == Slice(data, 0, config.ChunkSize)
           build == BuildSendDataCmd(chunk)
       IN  IF build.err
           THEN /\ Return(Error("invalid argument", "program row: send data chunk", <<>>))
                /\ UNCHANGED << wire, awaiting, data >>
           ELSE \E ok \in BOOLEAN :
                  IF ok
                  THEN /\ wire' = Append(wire, build.frame)
                       /\ awaiting' = TRUE
                       /\ data' = Slice(data, config.ChunkSize, Len(data))
                       /\ UNCHANGED << pc, result >>
                  ELSE /\ Return(Error("write command", "program row: send data chunk", <<>>))
                       /\ UNCHANGED << wire, awaiting, data >>
    /\ UNCHANGED << otherVars, fw, key, config, ctxErr, ctxAtCall, rowIdx, bytesWritten,
                    reads, reports >>

ProgramRowWrite ==
    /\ pc = "program_row"
    /\ ~NeedsChunk(data)
    /\ WriteCommand(BuildProgramRowCmd(CurRow.ArrayID, CurRow.RowNum, data),
                    "program row", "programrow_read")
    /\ UNCHANGED << otherVars, fw, key, config, ctxErr, ctxAtCall, rowIdx, data, bytesWritten,
                    reads, reports >>

\* the end of a row-loop iteration: bytesWritten, the progress report, i++
\* faulty variant: the report after a row carries the loop index i and the
\* percentage of i rows
RowDone_LoopIndex ==
    /\ bytesWritten' = bytesWritten + Len(CurRow.Data)
    /\ reports' = Append(reports,
                     Report("programming", rowIdx,
                            2 * NumRows + 88 * rowIdx, NumRows,
                            bytesWritten + Len(CurRow.Data)))
    /\ rowIdx' = rowIdx + 1
    /\ pc' = "row_head"
    /\ UNCHANGED result

RowDone ==
    /\ bytesWritten' = bytesWritten + Len(CurRow.Data)
    /\ reports' = Append(reports,
                     Report("programming", rowIdx + 1,
                            2 * NumRows + 88 * (rowIdx + 1), NumRows,
                            bytesWritten + Len(CurRow.Data)))
    /\ rowIdx' = rowIdx + 1
    /\ pc' = "row_head"
    /\ UNCHANGED result

ProgramRowRead ==
    /\ pc = "programrow_read"
    /\ \E rd \in ReadOutcomes(ProgramRowReplies) :
         LET x == Exchange(rd) IN
         /\ reads' = Append(reads, rd)
         /\ awaiting' = IF x.err = "" THEN FALSE ELSE awaiting
         /\ IF x.err # ""
            THEN /\ Return(Error(x.err, "program row", <<>>))
                 /\ UNCHANGED << rowIdx, bytesWritten, reports >>
            ELSE IF x.status # StatusSuccess
            THEN /\ Return(Error("ProtocolError", "program row", <<"", x.status>>))
                 /\ UNCHANGED << rowIdx, bytesWritten, reports >>
            ELSE IF VerifyEnabled
            THEN /\ pc' = "verifyrow_write"
                 /\ UNCHANGED << rowIdx, bytesWritten, reports, result >>
            ELSE RowDone
    /\ UNCHANGED << otherVars, fw, key, config, ctxErr, ctxAtCall, data, wire >>

VerifyRowWrite ==
    /\ pc = "verifyrow_write"
    /\ WriteCommand(BuildVerifyRowCmd(CurRow.ArrayID, CurRow.RowNum),
                    "verify row", "verifyrow_read")
    /\ UNCHANGED << otherVars, fw, key, config, ctxErr, ctxAtCall, rowIdx, data, bytesWritten,
                    reads, reports >>

\* the checksum verifyRow expects from the device
ExpectedChecksum(row) ==
    CalculateRowChecksumWithMetadata(row.Checksum, row.ArrayID, row.RowNum,
                                     Len(row.Data) % 65536)

VerifyRowRead ==
    /\ pc = "verifyrow_read"
    /\ \E rd \in ReadOutcomes(VerifyRowReplies(CurRow)) :
         LET x == Exchange(rd)
             dev == ParseVerifyRowResponse(x.data)
             expectedChecksum == ExpectedChecksum(CurRow)
         IN
         /\ reads' = Append(reads, rd)
         /\ awaiting' = IF x.err = "" THEN FALSE ELSE awaiting
         /\ IF x.err # ""
            THEN /\ Return(Error(x.err, "verify row", <<>>))
                 /\ UNCHANGED << rowIdx, bytesWritten, reports >>
            ELSE IF x.status # StatusSuccess
            THEN /\ Return(Error("ProtocolError", "verify row", <<"verify row", x.status>>))
                 /\ UNCHANGED << rowIdx, bytesWritten, reports >>
            ELSE IF dev.err
            THEN /\ Return(Error("invalid data length", "verify row", <<>>))
                 /\ UNCHANGED << rowIdx, bytesWritten, reports >>
            ELSE IF dev.checksum # expectedChecksum
            THEN /\ Return(Error("ChecksumMismatchError", "verify row",
                                 << CurRow.RowNum, expectedChecksum, dev.checksum >>))
                 /\ UNCHANGED << rowIdx, bytesWritten, reports >>
            ELSE RowDone
    /\ UNCHANGED << otherVars, fw, key, config, ctxErr, ctxAtCall, data, wire >>

VerifyChecksumWrite ==
    /\ pc = "vc_write"
    /\ WriteCommand(BuildVerifyChecksumCmd, "verify application", "vc_read")
    /\ UNCHANGED << otherVars, fw, key, config, ctxErr, ctxAtCall, rowIdx, data, bytesWritten,
                    reads, reports >>

\* what the public VerifyChecksum returns once its command is written, for
\* one Read outcome: [valid, err]
VerifyChecksum(rd) ==
    LET x == Exchange(rd)
        v == ParseVerifyChecksumResponse(x.data)
    IN  IF x.err # "" THEN [valid |-> FALSE, err |-> Error(x.err, "", <<>>)]
        ELSE IF x.status # StatusSuccess
        THEN [valid |-> FALSE,
              err |-> Error("ProtocolError", "", <<"verify checksum", x.status>>)]
        ELSE IF v.err
        THEN [valid |-> FALSE, err |-> Error("invalid data length", "", <<>>)]
        ELSE IF ~v.valid
        THEN [valid |-> FALSE, err |-> Error("VerificationError", "", <<>>)]
        ELSE [valid |-> TRUE, err |-> Success]

\* the rest of VerifyChecksum, then Program up to ExitBootloader
VerifyChecksumRead ==
    /\ pc = "vc_read"
    /\ \E rd \in ReadOutcomes(VerifyChecksumReplies) :
         LET r == VerifyChecksum(rd) IN
         /\ reads' = Append(reads, rd)
         /\ awaiting' = IF Exchange(rd).err = "" THEN FALSE ELSE awaiting
         /\ IF r.err # Success
            THEN /\ Return(Error(r.err.kind, "verify application", r.err.args))
                 /\ UNCHANGED reports
            ELSE /\ reports' = Append(reports, Report("exiting", NumRows, 95, 1, 0))
                 /\ pc' = "exit_write"
                 /\ UNCHANGED result
    /\ UNCHANGED << otherVars, fw, key, config, ctxErr, ctxAtCall, rowIdx, data, bytesWritten, wire >>

\* faulty variant: ExitBootloader waits for a response and fails without one
ExitBootloaderWrite_AwaitsReply ==
    /\ pc = "exit_write"
    /\ \E rd \in ReadOutcomes({RespFrame(StatusSuccess, <<>>)}) :
         /\ wire' = Append(wire, BuildExitBootloaderCmd.frame)
         /\ reads' = Append(reads, rd)
         /\ awaiting' = (Exchange(rd).err # "")
         /\ IF Exchange(rd).err # ""
            THEN Return(Error(Exchange(rd).err, "exit bootloader", <<>>))
                 /\ UNCHANGED reports
            ELSE /\ reports' = Append(reports,
                                      Report("complete", NumRows, 100, 1, bytesWritten))
                 /\ Return(Success)
    /\ UNCHANGED << otherVars, fw, key, config, ctxErr, ctxAtCall, rowIdx, data, bytesWritten >>

\* faulty variant: the complete report goes out before ExitBootloader, whose
\* failure Program returns
ExitBootloaderWrite_ReportsFirst ==
    /\ pc = "exit_write"
    /\ reports' = Append(reports, Report("complete", NumRows, 100, 1, bytesWritten))
    /\ \E ok \in BOOLEAN :
         IF ok
         THEN /\ wire' = Append(wire, BuildExitBootloaderCmd.frame)
              /\ awaiting' = TRUE
              /\ Return(Success)
         ELSE /\ UNCHANGED << wire, awaiting >>
              /\ Return(Error("write command", "exit bootloader", <<>>))
    /\ UNCHANGED << otherVars, fw, key, config, ctxErr, ctxAtCall, rowIdx, data, bytesWritten, reads >>

\* ExitBootloader writes with sendCommand and drops its error; Program then
\* reports completion and returns nil
ExitBootloaderWrite ==
    /\ pc = "exit_write"
    /\ \E ok \in BOOLEAN :
         IF ok
         THEN /\ wire' = Append(wire, BuildExitBootloaderCmd.frame)
              /\ awaiting' = TRUE
         ELSE UNCHANGED << wire, awaiting >>
    /\ reports' = Append(reports, Report("complete", NumRows, 100, 1, bytesWritten))
    /\ Return(Success)
    /\ UNCHANGED << otherVars, fw, key, config, ctxErr, ctxAtCall, rowIdx, data, bytesWritten, reads >>

Next ==
    \/ CtxCancel
    \/ CtxDeadline
    \/ ProgramBegin
    \/ EnterBootloaderWrite
    \/ EnterBootloaderRead
    \/ GetFlashSizeWrite
    \/ GetFlashSizeRead
    \/ RowLoopHead
    \/ SendDataWrite
    \/ ProgramRowWrite
    \/ ProgramRowRead
    \/ VerifyRowWrite
    \/ VerifyRowRead
    \/ VerifyChecksumWrite
    \/ VerifyChecksumRead
    \/ ExitBootloaderWrite

Spec == Init /\ [][Next]_vars

\* ------------------------------------------------------------------------
\* Program on a Programmer that New made with the default chunk size
\* ------------------------------------------------------------------------
DefaultInit ==
    /\ fw \in DefaultFirmwares
    /\ key = GoodKey
    /\ chunkRequest \in { <<>> } \cup { <<size>> : size \in RefusedChunkSizes }
    /\ config = New(chunkRequest)
    /\ ctxErr = ""
    /\ ctxAtCall = ""
    /\ pc = "start"
    /\ rowIdx = 0
    /\ data = <<>>
    /\ bytesWritten = 0
    /\ wire = <<>>
    /\ reads = <<>>
    /\ awaiting = FALSE
    /\ reports = <<>>
    /\ result = Pending
    /\ CodecNotCalled
    /\ ParserNotCalled
    /\ CallsNotStarted
    /\ ReaderNotCalled

DefaultSpec == DefaultInit /\ [][Next]_vars

\* ------------------------------------------------------------------------
\* The frame codec on its own: one builder or ParseResponse call
\* ------------------------------------------------------------------------
PayloadBytes == {0, 1, 23, 255}

\* payloads of up to MaxPayload bytes
ShortPayloads == UNION { [1..n -> PayloadBytes] : n \in 0..MaxPayload }

\* payloads at the size limit, all bytes 0xFF: the 16-bit sum wraps
LongPayloads == { [k \in 1..n |-> 255] : n \in {MaxDataSize - 1, MaxDataSize} }

Payloads == ShortPayloads \cup LongPayloads

\* data handed to BuildProgramRowCmd and BuildSendDataCmd: also one byte more
\* than MaxDataSize
CommandData == Payloads \cup { [k \in 1..(MaxDataSize + 1) |-> 255] }

\* keys handed to BuildEnterBootloaderCmd: 5, 6 and 7 bytes
CodecKeys == Keys \cup { <<1, 2, 3, 4, 5, 6, 7>> }

StatusBytes == {StatusSuccess, ErrChecksum, 255}

\* calls of the twelve builders: the command code and payload asked for, and
\* what the builder returned
CommandCalls ==
    { [code |-> CmdEnterBootloader, payload |-> k, build |-> BuildEnterBootloaderCmd(k)] :
        k \in CodecKeys }
    \cup { [code |-> CmdGetFlashSize, payload |-> <<a>>, build |-> BuildGetFlashSizeCmd(a)] :
        a \in {0, 1} }
    \cup { [code |-> CmdProgramRow, payload |-> <<p[1]>> \o PutUint16(p[2]) \o d,
            build |-> BuildProgramRowCmd(p[1], p[2], d)] : p \in RowPlaces, d \in CommandData }
    \cup { [code |-> CmdSendData, payload |-> d, build |-> BuildSendDataCmd(d)] :
        d \in CommandData }
    \cup { [code |-> CmdVerifyRow, payload |-> <<p[1]>> \o PutUint16(p[2]),
            build |-> BuildVerifyRowCmd(p[1], p[2])] : p \in RowPlaces }
    \cup { [code |-> CmdEraseRow, payload |-> <<p[1]>> \o PutUint16(p[2]),
            build |-> BuildEraseRowCmd(p[1], p[2])] : p \in RowPlaces }
    \cup { [code |-> CmdVerifyChecksum, payload |-> <<>>, build |-> BuildVerifyChecksumCmd],
           [code |-> CmdSyncBootloader, payload |-> <<>>, build |-> BuildSyncBootloaderCmd],
           [code |-> CmdExitBootloader, payload |-> <<>>, build |-> BuildExitBootloaderCmd] }
    \cup { [code |-> CmdGetMetadata, payload |-> <<n>>, build |-> BuildGetMetadataCmd(n)] :
        n \in {0, 1} }
    \cup { [code |-> CmdGetAppStatus, payload |-> <<n>>, build |-> BuildGetAppStatusCmd(n)] :
        n \in {0, 1} }
    \cup { [code |-> CmdSetActiveApp, payload |-> <<n>>, build |-> BuildSetActiveAppCmd(n)] :
        n \in {0, 1} }

FrameBytes == {0, 1, 2, 23, 255}

\* a well-formed frame damaged in one place: one byte changed, cut short, or
\* one byte appended
Damaged(f) ==
    { [f EXCEPT ![k] = v] : k \in 1..Len(f), v \in FrameBytes }
    \cup { SubSeq(f, 1, n) : n \in 0..Len(f) }
    \cup { f \o <<v>> : v \in FrameBytes }

\* a frame of 65536 bytes, well-formed but for its size: its LEN field is
\* 0xFFF9, and MinFrameSize + LEN is 0 in 16 bits
WrapFrame == RespFrame(StatusSuccess, [k \in 1..(65536 - MinFrameSize) |-> 0])

\* byte sequences handed to ParseResponse
RawFrames ==
    UNION { Damaged(RespFrame(st, d)) : st \in StatusBytes, d \in ShortPayloads }
    \cup { WrapFrame }

CodecInit ==
    /\ fw = NilFirmware
    /\ key = GoodKey
    /\ config = [ChunkSize |-> 1, VerifyAfterProgram |-> TRUE, Retries |-> DefaultRetries]
    /\ chunkRequest = <<1>>
    /\ ctxErr = ""
    /\ ctxAtCall = ""
    /\ pc = "start"
    /\ rowIdx = 0
    /\ data = <<>>
    /\ bytesWritten = 0
    /\ wire = <<>>
    /\ reads = <<>>
    /\ awaiting = FALSE
    /\ reports = <<>>
    /\ result = Pending
    /\ CodecNotCalled
    /\ ParserNotCalled
    /\ CallsNotStarted
    /\ ReaderNotCalled

\* a builder call: it returned a frame or an error ("rejected"); and
\* ParseResponse of the bytes it returned
BuildCommand ==
    /\ codecOrigin = CodecIdle
    /\ \E call \in CommandCalls :
         /\ codecOrigin' = [kind |-> IF call.build.err THEN "rejected" ELSE "command",
                            code |-> call.code, payload |-> call.payload]
         /\ codecFrame' = call.build.frame
         /\ codecParsed' = ParseResponse(call.build.frame)
    /\ UNCHANGED nonCodecVars

\* a response frame built the way the builders build, and ParseResponse of it
BuildResponse ==
    /\ codecOrigin = CodecIdle
    /\ \E st \in StatusBytes, d \in Payloads :
         /\ codecOrigin' = [kind |-> "response", code |-> st, payload |-> d]
         /\ codecFrame' = RespFrame(st, d)
         /\ codecParsed' = ParseResponse(RespFrame(st, d))
    /\ UNCHANGED nonCodecVars

\* ParseResponse of arbitrary bytes
ParseRaw ==
    /\ codecOrigin = CodecIdle
    /\ \E f \in RawFrames :
         /\ codecOrigin' = [kind |-> "raw", code |-> 0, payload |-> <<>>]
         /\ codecFrame' = f
         /\ codecParsed' = ParseResponse(f)
    /\ UNCHANGED nonCodecVars

\* verifyRow's handling of a success response: ParseResponse, then
\* ParseVerifyRowResponse of its data under Config.LenientVerifyRow
DecodeVerifyRow ==
    /\ codecOrigin = CodecIdle
    /\ \E lenient \in BOOLEAN, d \in ShortPayloads :
         LET f == RespFrame(StatusSuccess, d)
             r == ParseVerifyRowResponseLenient(ParseResponse(f).data, lenient)
         IN  /\ codecOrigin' = [kind |-> "verify row", code |-> StatusSuccess, payload |-> d]
             /\ codecFrame' = f
             /\ codecParsed' = ParseResponse(f)
             /\ verifyRowOut' = [called |-> TRUE, lenient |-> lenient,
                                 err |-> r.err, checksum |-> r.checksum]
    /\ UNCHANGED << programVars, newVars, parserVars, callVars, readerVars >>

CodecNext ==
    \/ BuildCommand
    \/ BuildResponse
    \/ ParseRaw
    \/ DecodeVerifyRow

CodecSpec == CodecInit /\ [][CodecNext]_vars

\* ------------------------------------------------------------------------
\* The parser on its own: one ParseReader call
\* ------------------------------------------------------------------------
\* hex.EncodeToString, upper case
HexEncode(bytes) ==
    [k \in 1..(2 * Len(bytes)) |->
        IF k % 2 = 1
        THEN UpperHex[(bytes[(k + 1) \div 2] \div 16) + 1]
        ELSE UpperHex[(bytes[k \div 2] % 16) + 1]]

LowerCase(line) ==
    [k \in 1..Len(line) |->
        IF \E v \in 1..16 : UpperHex[v] = line[k]
        THEN LowerHex[CHOOSE v \in 1..16 : UpperHex[v] = line[k]]
        ELSE line[k]]

\* header bytes: silicon id, silicon revision, checksum type
HeaderBytes ==
    { PutUint32BE(SiliconA) \o <<0, t>> : t \in {0, 1, 2} }
    \cup { PutUint32BE(SiliconB) \o <<17, 1>> }

GoodHeader == HexEncode(PutUint32BE(SiliconA) \o <<0, 0>>)

\* first lines: headers, and headers cut short, extended, in lower case, with
\* a character that is no hex digit, and the empty line
HeaderLines ==
    { HexEncode(h) : h \in HeaderBytes }
    \cup { SubSeq(GoodHeader, 1, 10), SubSeq(GoodHeader, 1, 11), GoodHeader \o <<"0", "0">>,
           LowerCase(GoodHeader), [GoodHeader EXCEPT ![1] = "G"], <<>> }

\* the bytes of a row line before the checksum byte
RowHead(a, r, n, bigEndian) ==
    <<a>> \o (IF bigEndian
              THEN << r \div 256, r % 256, n \div 256, n % 256 >>
              ELSE PutUint16(r) \o PutUint16(n))
          \o DataOfLen(n)

\* the bytes of a well-formed row line
RowBytes(a, r, n, bigEndian) ==
    RowHead(a, r, n, bigEndian) \o << calculateRowChecksum(RowHead(a, r, n, bigEndian)) >>

GoodRowBytes(bigEndian) ==
    { RowBytes(p[1], p[2], n, bigEndian) : p \in RowPlaces, n \in 0..MaxDataLen }

\* a row's bytes damaged in one place: one byte changed, the last byte
\* dropped, or one byte appended
DamagedRow(b) ==
    { [b EXCEPT ![k] = v] : k \in 1..Len(b), v \in {0, 1, 255} }
    \cup { SubSeq(b, 1, Len(b) - 1), b \o <<0>> }

\* an encoded line damaged: the last character dropped, a character that is
\* no hex digit, lower case
DamagedLine(l) ==
    { SubSeq(l, 1, Len(l) - 1), [l EXCEPT ![Len(l)] = "G"], LowerCase(l) }

StandardLines ==
    LET good == { HexEncode(b) : b \in GoodRowBytes(FALSE) }
    IN  good
        \cup { HexEncode(d) : d \in UNION { DamagedRow(b) : b \in GoodRowBytes(FALSE) } }
        \cup UNION { DamagedLine(l) : l \in good }

HybridLines ==
    LET good == { HexEncode(b) : b \in GoodRowBytes(TRUE) }
        all == good
               \cup { HexEncode(d) : d \in UNION { DamagedRow(b) : b \in GoodRowBytes(TRUE) } }
               \cup UNION { DamagedLine(l) : l \in good }
    IN  { <<":">> \o l : l \in all } \cup { <<":">> }

GoodLines ==
    { HexEncode(b) : b \in GoodRowBytes(FALSE) }
    \cup { <<":">> \o HexEncode(b) : b \in GoodRowBytes(TRUE) }

\* a well-formed standard row line of 65538 characters: 32763 data bytes
HugeLine ==
    LET head == <<0, 0, 0, 251, 127>> \o [k \in 1..32763 |-> 0]
    IN  HexEncode(head \o << calculateRowChecksum(head) >>)

\* the files handed to ParseReader
Files ==
    { <<>> }
    \cup { <<h>> : h \in HeaderLines }
    \cup { <<h, <<>>, <<>> >> : h \in HeaderLines }
    \cup { <<h, l>> : h \in HeaderLines, l \in GoodLines }
    \cup { <<GoodHeader, l>> : l \in StandardLines \cup HybridLines }
    \cup { <<GoodHeader, <<>>, l, <<>> >> : l \in GoodLines }
    \cup { <<GoodHeader, l1, l2>> : l1 \in GoodLines, l2 \in GoodLines }
    \cup UNION { { <<GoodHeader, l, <<>>, SubSeq(l, 1, Len(l) - 2)>>,
                    <<GoodHeader, l, <<>>, <<"G">> >> } : l \in GoodLines }
    \cup { <<GoodHeader, HugeLine>> }

ParserInit ==
    /\ fw = NilFirmware
    /\ key = GoodKey
    /\ config = defaultConfig
    /\ chunkRequest = <<>>
    /\ ctxErr = ""
    /\ ctxAtCall = ""
    /\ pc = "start"
    /\ rowIdx = 0
    /\ data = <<>>
    /\ bytesWritten = 0
    /\ wire = <<>>
    /\ reads = <<>>
    /\ awaiting = FALSE
    /\ reports = <<>>
    /\ result = Pending
    /\ CodecNotCalled
    /\ ParserNotCalled
    /\ CallsNotStarted
    /\ ReaderNotCalled

\* one ParseReader call
ParseFile ==
    /\ parseOut.kind = "idle"
    /\ \E f \in Files :
         /\ fileLines' = f
         /\ parseOut' = ParseReader(f)
    /\ UNCHANGED << programVars, newVars, codecVars, decoderVars, callVars, readerVars >>

ParserNext == ParseFile

ParserSpec == ParserInit /\ [][ParserNext]_vars

\* ------------------------------------------------------------------------
\* A caller that parses a file and programs what it got
\* (examples/advanced/main.go)
\* ------------------------------------------------------------------------
\* files of two well-formed row lines, an empty line between them or not, and
\* a file whose second row line is cut short
LoadedFiles ==
    { <<GoodHeader, l1, l2>> : l1 \in GoodLines, l2 \in GoodLines }
    \cup { <<GoodHeader, l, <<>>, l>> : l \in GoodLines }
    \cup { <<GoodHeader, l, SubSeq(l, 1, Len(l) - 2)>> : l \in GoodLines }

\* before cyacd.Parse: the programmer is built with a chunk size option
LoadInit ==
    /\ fw = NilFirmware
    /\ key = GoodKey
    /\ chunkRequest \in { <<size>> : size \in 1..MaxChunk }
    /\ config = New(chunkRequest)
    /\ ctxErr = ""
    /\ ctxAtCall = ""
    /\ pc = "load"
    /\ rowIdx = 0
    /\ data = <<>>
    /\ bytesWritten = 0
    /\ wire = <<>>
    /\ reads = <<>>
    /\ awaiting = FALSE
    /\ reports = <<>>
    /\ result = Pending
    /\ CodecNotCalled
    /\ ParserNotCalled
    /\ CallsNotStarted
    /\ ReaderNotCalled

\* fw, err := cyacd.Parse(path); on an error the caller stops, otherwise fw is
\* what it hands to Program
LoadFile ==
    /\ pc = "load"
    /\ \E f \in LoadedFiles :
         /\ fileLines' = f
         /\ parseOut' = ParseReader(f)
    /\ IF parseOut'.err # ""
       THEN /\ Return(Error("Failed to parse firmware", "", <<>>))
            /\ UNCHANGED fw
       ELSE /\ fw' = parseOut'.fw
            /\ pc' = "start"
            /\ UNCHANGED result
    /\ UNCHANGED << newVars, codecVars, decoderVars, callVars, readerVars, key, config, ctxErr, ctxAtCall,
                    rowIdx, data, bytesWritten, wire, reads, awaiting, reports >>

LoadNext == LoadFile \/ Next

LoadSpec == LoadInit /\ [][LoadNext]_vars

\* ------------------------------------------------------------------------
\* Two goroutines calling Program on one Programmer: the exchanges of
\* sendCommandWithResponse on the shared transport
\* ------------------------------------------------------------------------
\* the one-row firmware both calls program, verification after each row off
SharedRow == Row(0, 0, 1, FileChecksum(0, 0, 1))

\* the commands of one Program call that wait for a response, in order
CallFrames ==
    << BuildEnterBootloaderCmd(GoodKey).frame,
       BuildGetFlashSizeCmd(SharedRow.ArrayID).frame,
       BuildProgramRowCmd(SharedRow.ArrayID, SharedRow.RowNum, SharedRow.Data).frame,
       BuildVerifyChecksumCmd.frame >>

\* the command code of a command frame: the byte after the start of packet
FrameCode(frame) == frame[2]

\* what a bootloader that accepts everything answers to a command
DeviceReply(frame) ==
    RespFrame(StatusSuccess,
              IF FrameCode(frame) = CmdEnterBootloader THEN PutUint32(SiliconA) \o <<0, 1, 30, 0>>
              ELSE IF FrameCode(frame) = CmdGetFlashSize THEN PutUint16(0) \o PutUint16(511)
              ELSE IF FrameCode(frame) = CmdVerifyChecksum THEN <<1>>
              ELSE <<>>)

\* what the operation that sent command code cmd makes of the response r it
\* got from sendCommandWithResponse: "" or the error it returns
CallVerdict(cmd, r) ==
    IF r.err # "" THEN r.err
    ELSE IF r.status # StatusSuccess THEN "protocol error"
    ELSE IF cmd = CmdEnterBootloader
    THEN (IF ParseEnterBootloaderResponse(r.data).err THEN "invalid response"
          ELSE IF ParseEnterBootloaderResponse(r.data).SiliconID # SiliconA
          THEN "device mismatch" ELSE "")
    ELSE IF cmd = CmdGetFlashSize
    THEN (IF ParseGetFlashSizeResponse(r.data).err THEN "invalid response" ELSE "")
    ELSE IF cmd = CmdVerifyChecksum
    THEN (IF ParseVerifyChecksumResponse(r.data).err THEN "invalid response"
          ELSE IF ~ParseVerifyChecksumResponse(r.data).valid THEN "verification"
          ELSE "")
    ELSE ""

SharedInit ==
    /\ fw = NilFirmware
    /\ key = GoodKey
    /\ config = [defaultConfig EXCEPT !.VerifyAfterProgram = FALSE]
    /\ chunkRequest = <<>>
    /\ ctxErr = ""
    /\ ctxAtCall = ""
    /\ pc = "start"
    /\ rowIdx = 0
    /\ data = <<>>
    /\ bytesWritten = 0
    /\ wire = <<>>
    /\ reads = <<>>
    /\ awaiting = FALSE
    /\ reports = <<>>
    /\ result = Pending
    /\ CodecNotCalled
    /\ ParserNotCalled
    /\ calls = [c \in Callers |-> CallAt("write")]
    /\ devReplies = <<>>
    /\ ReaderNotCalled

\* p.device.Write(cmd) of sendCommandWithResponse, in caller c: the transport
\* takes the frame and the device queues its answer, or Write fails
CallWrite(c) ==
    /\ calls[c].pc = "write"
    /\ \E ok \in BOOLEAN :
         IF ok
         THEN LET frame == CallFrames[calls[c].step]
              IN  /\ devReplies' = Append(devReplies,
                                          [to |-> c, cmd |-> FrameCode(frame),
                                           frame |-> DeviceReply(frame)])
                  /\ calls' = [calls EXCEPT ![c].pc = "read"]
         ELSE /\ calls' = [calls EXCEPT ![c].pc = "done", ![c].err = "write command"]
              /\ UNCHANGED devReplies
    /\ UNCHANGED << programVars, newVars, codecVars, decoderVars, parserVars, readerVars >>

\* p.device.Read(response) of sendCommandWithResponse, in caller c, and what
\* the caller does with the frame: Read hands out the oldest response the
\* transport holds, whoever wrote the command it answers
CallRead(c) ==
    /\ calls[c].pc = "read"
    /\ devReplies # <<>>
    /\ LET re == Head(devReplies)
           verdict == CallVerdict(FrameCode(CallFrames[calls[c].step]),
                                  Exchange([ioerr |-> FALSE, raw |-> re.frame]))
           got == Append(calls[c].got, [to |-> re.to, cmd |-> re.cmd])
       IN  /\ devReplies' = Tail(devReplies)
           /\ calls' =
                IF verdict # ""
                THEN [calls EXCEPT ![c].pc = "done", ![c].err = verdict, ![c].got = got]
                ELSE IF calls[c].step < Len(CallFrames)
                THEN [calls EXCEPT ![c].pc = "write", ![c].step = @ + 1, ![c].got = got]
                ELSE [calls EXCEPT ![c].pc = "exit", ![c].got = got]
    /\ UNCHANGED << programVars, newVars, codecVars, decoderVars, parserVars, readerVars >>

\* ExitBootloader goes out with sendCommand: no response is read
CallExit(c) ==
    /\ calls[c].pc = "exit"
    /\ calls' = [calls EXCEPT ![c].pc = "done"]
    /\ UNCHANGED << devReplies, programVars, newVars, codecVars, decoderVars, parserVars,
                    readerVars >>

SharedNext == \E c \in Callers : CallWrite(c) \/ CallRead(c) \/ CallExit(c)

SharedSpec == SharedInit /\ [][SharedNext]_vars

\* ------------------------------------------------------------------------
\* The response reader on its own: one Read inside sendCommandWithResponse,
\* and ParseResponse of the frame it returns
\* ------------------------------------------------------------------------
\* bytes a HID transport puts before the frame as report id
ReportIds == {0, 1, 2, 23, 255}

\* the zero padding of a fixed-size HID packet after the bytes head
Padded(head, size) == head \o [k \in 1..(size - Len(head)) |-> 0]

\* LEN fields at which MinFrameSize + LEN reaches or passes 2^16
WrapLens == {65528, 65529, 65530, 65531, 65535}

\* reads whose LEN field is close to 0xFFFF: 7 or 8 bytes, a 64-byte packet,
\* and a full buffer, with and without a report id
WrapReads ==
    LET heads == { <<StartOfPacket, st>> \o PutUint16(len) :
                     st \in {StatusSuccess, EndOfPacket}, len \in WrapLens }
        raws == UNION { { Padded(h, MinFrameSize), Padded(h, MinFrameSize + 1),
                          Padded(h, 64), Padded(h, DefaultResponseBufferSize - 1),
                          h \o <<0, 0>> \o <<EndOfPacket>> } : h \in heads }
    IN  raws \cup { <<id>> \o r : id \in {0, EndOfPacket}, r \in raws }

\* what Read returns: response frames as they are, behind a report id, padded
\* to the packet size, damaged in one place, and the reads of WrapReads
RawReads ==
    LET frames == { RespFrame(st, d) : st \in StatusBytes, d \in ShortPayloads }
        damaged == UNION { Damaged(f) : f \in frames }
    IN  frames
        \cup { <<id>> \o f : id \in ReportIds, f \in frames }
        \cup { Padded(f, 64) : f \in frames }
        \cup { Padded(<<id>> \o f, 64) : id \in ReportIds, f \in frames }
        \cup damaged
        \cup { <<0>> \o f : f \in damaged }
        \cup WrapReads

ReaderInit ==
    /\ fw = NilFirmware
    /\ key = GoodKey
    /\ config = defaultConfig
    /\ chunkRequest = <<>>
    /\ ctxErr = ""
    /\ ctxAtCall = ""
    /\ pc = "start"
    /\ rowIdx = 0
    /\ data = <<>>
    /\ bytesWritten = 0
    /\ wire = <<>>
    /\ reads = <<>>
    /\ awaiting = FALSE
    /\ reports = <<>>
    /\ result = Pending
    /\ CodecNotCalled
    /\ ParserNotCalled
    /\ CallsNotStarted
    /\ ReaderNotCalled

\* n, err := p.device.Read(response) returned the bytes raw; the frame
\* extraction that follows, and ParseResponse of the frame as the callers of
\* sendCommandWithResponse apply it
ReadResponse ==
    /\ readOut.kind = "idle"
    /\ \E raw \in RawReads :
         LET x == ExtractFrame(raw)
         IN  /\ readRaw' = raw
             /\ readOut' = [kind |-> "done", err |-> x.err, frame |-> x.frame,
                            parsed |-> IF x.err = "" THEN ParseResponse(x.frame)
                                       ELSE ParseFail(x.err)]
    /\ UNCHANGED << programVars, newVars, codecVars, decoderVars, parserVars, callVars >>

ReaderNext == ReadResponse

ReaderSpec == ReaderInit /\ [][ReaderNext]_vars

\* ------------------------------------------------------------------------
\* Reading the transport's history
\* ------------------------------------------------------------------------
\* command code of a written frame
CmdOf(frame) == frame[2]

\* payload of a written frame
PayloadOf(frame) == Slice(frame, 4, Len(frame) - 3)

\* the command codes written so far, in order
Cmds == [k \in 1..Len(wire) |-> CmdOf(wire[k])]

\* how many frames with command code c were written
Count(c) == Cardinality({ k \in 1..Len(wire) : CmdOf(wire[k]) = c })

RowCmds == {CmdSendData, CmdProgramRow, CmdVerifyRow}

\* C1's grammar: may command b directly follow command a on the wire
MayFollow(a, b) ==
    IF a = CmdEnterBootloader
    THEN b = (IF NumRows > 0 THEN CmdGetFlashSize ELSE CmdVerifyChecksum)
    ELSE IF a = CmdGetFlashSize THEN b \in {CmdSendData, CmdProgramRow}
    ELSE IF a = CmdSendData THEN b \in {CmdSendData, CmdProgramRow}
    ELSE IF a = CmdProgramRow
    THEN IF config.VerifyAfterProgram THEN b = CmdVerifyRow
         ELSE b \in {CmdSendData, CmdProgramRow, CmdVerifyChecksum}
    ELSE IF a = CmdVerifyRow THEN b \in {CmdSendData, CmdProgramRow, CmdVerifyChecksum}
    ELSE IF a = CmdVerifyChecksum THEN b = CmdExitBootloader
    ELSE FALSE

\* the phase a command belongs to
PhaseRank(c) ==
    IF c = CmdEnterBootloader THEN 1
    ELSE IF c = CmdGetFlashSize THEN 2
    ELSE IF c \in RowCmds THEN 3
    ELSE IF c = CmdVerifyChecksum THEN 4
    ELSE 5

\* C1: the commands on the wire follow the order EnterBootloader, GetFlashSize
\* (only if the firmware has rows), per row SendData* ProgramRow and, with
\* verification enabled, VerifyRow, then VerifyChecksum, then ExitBootloader;
\* each of the one-off commands is written at most once, at most one
\* ProgramRow per row, VerifyChecksum only after every row's ProgramRow, and
\* no command of an earlier phase follows one of a later phase.
C1_CommandOrder ==
    /\ Len(wire) > 0 => Cmds[1] = CmdEnterBootloader
    /\ \A k \in 1..(Len(wire) - 1) : MayFollow(Cmds[k], Cmds[k + 1])
    /\ \A k \in 1..Len(wire) : \A m \in k..Len(wire) :
          PhaseRank(Cmds[k]) <= PhaseRank(Cmds[m])
    /\ \A c \in {CmdEnterBootloader, CmdGetFlashSize, CmdVerifyChecksum, CmdExitBootloader} :
          Count(c) <= 1
    /\ Count(CmdProgramRow) <= NumRows
    /\ Count(CmdVerifyRow) <= Count(CmdProgramRow)
    /\ Count(CmdVerifyChecksum) = 1 =>
          /\ Count(CmdProgramRow) = NumRows
          /\ config.VerifyAfterProgram => Count(CmdVerifyRow) = NumRows

\* a complete run over two rows, one of them chunked, with row verification
C1_Witness ==
    /\ result = Success
    /\ NumRows = 2
    /\ config.VerifyAfterProgram
    /\ Count(CmdSendData) >= 1
    /\ Count(CmdVerifyRow) = 2
    /\ Cmds[Len(wire)] = CmdExitBootloader

\* C2: a frame is written only when no response is outstanding.
C2_Lockstep == [][Len(wire') > Len(wire) => ~awaiting]_vars

\* the decoded response to the k-th read
Reply(k) == Exchange(reads[k])

\* a response that parsed, with success status and n data bytes
GoodReply(x, n) == x.err = "" /\ x.status = StatusSuccess /\ Len(x.data) = n

\* little-endian u32 of the first four data bytes
SiliconIDOf(d) == d[1] + 256 * d[2] + 65536 * d[3] + 16777216 * d[4]

\* C3: once the EnterBootloader response decodes to a silicon id other than
\* the firmware's, Program has returned DeviceMismatchError{expected =
\* firmware id, actual = device id} and EnterBootloader is the only command
\* ever written.
C3_DeviceMismatch ==
    (/\ Len(reads) >= 1
     /\ GoodReply(Reply(1), 8)
     /\ SiliconIDOf(Reply(1).data) # fw.SiliconID)
    => /\ pc = "done"
       /\ result = Error("DeviceMismatchError", "",
                         << fw.SiliconID, SiliconIDOf(Reply(1).data) >>)
       /\ Cmds = << CmdEnterBootloader >>

\* the device answered with the other silicon id and Program returned
C3_Witness ==
    /\ pc = "done"
    /\ Len(reads) = 1
    /\ GoodReply(Reply(1), 8)
    /\ SiliconIDOf(Reply(1).data) = SiliconB
    /\ fw.SiliconID = SiliconA
    /\ NumRows > 0

\* rows of the firmware outside [lo, hi]
OutOfRange(lo, hi) ==
    { k \in 1..NumRows : fw.Rows[k].RowNum < lo \/ fw.Rows[k].RowNum > hi }

Least(S) == CHOOSE k \in S : \A m \in S : k <= m

\* C4: GetFlashSize carries the first row's array id; once its response
\* decodes to a range that some row (of any array) is outside of, Program has
\* returned RowOutOfRangeError with the array id and number of the first such
\* row in file order and the device's range, and no SendData or ProgramRow
\* was written for any row.
C4_RowOutOfRange ==
    /\ Count(CmdGetFlashSize) = 1 =>
          wire[2] = << StartOfPacket, CmdGetFlashSize, 1, 0, fw.Rows[1].ArrayID >>
                      \o PutUint16(calculatePacketChecksum(
                             << CmdGetFlashSize, 1, 0, fw.Rows[1].ArrayID >>))
                      \o << EndOfPacket >>
    /\ (/\ NumRows > 0
        /\ Len(reads) >= 2
        /\ GoodReply(Reply(2), 4))
       => LET lo == Reply(2).data[1] + 256 * Reply(2).data[2]
              hi == Reply(2).data[3] + 256 * Reply(2).data[4]
              bad == OutOfRange(lo, hi)
          IN  bad # {} =>
                /\ pc = "done"
                /\ result = Error("RowOutOfRangeError", "",
                                  << fw.Rows[Least(bad)].ArrayID,
                                     fw.Rows[Least(bad)].RowNum, lo, hi >>)
                /\ Count(CmdSendData) = 0
                /\ Count(CmdProgramRow) = 0
                /\ Len(wire) = 2

\* the second of two rows is out of range, the first is in range and in
\* another array
C4_Witness ==
    /\ pc = "done"
    /\ NumRows = 2
    /\ Len(reads) = 2
    /\ GoodReply(Reply(2), 4)
    /\ OutOfRange(Reply(2).data[1] + 256 * Reply(2).data[2],
                  Reply(2).data[3] + 256 * Reply(2).data[4]) = {2}
    /\ fw.Rows[1].ArrayID # fw.Rows[2].ArrayID
    /\ result.kind = "RowOutOfRangeError"

\* C5: when the context is done at the head of the row loop with k rows
\* programmed and a row left, exactly k ProgramRow (and, with verification, k
\* VerifyRow) commands have been written, and Program's next step returns the
\* context's error wrapped as a cancellation, writing nothing more.
C5_Cancellation ==
    [][ (pc = "row_head" /\ rowIdx < NumRows /\ ctxErr # "")
        => /\ Count(CmdProgramRow) = rowIdx
           /\ Count(CmdVerifyRow) = (IF config.VerifyAfterProgram THEN rowIdx ELSE 0)
           /\ Count(CmdVerifyChecksum) = 0
           /\ Count(CmdExitBootloader) = 0
           /\ pc' = "done"
           /\ result' = Error(ctxErr, "cancelled", <<>>)
           /\ result'.kind \in {"Canceled", "DeadlineExceeded"}
           /\ wire' = wire ]_vars

\* cancelled between row 1 and row 2, row 1 programmed and verified
C5_Witness ==
    /\ result = Error("Canceled", "cancelled", <<>>)
    /\ NumRows = 2
    /\ rowIdx = 1
    /\ config.VerifyAfterProgram
    /\ Count(CmdProgramRow) = 1
    /\ Count(CmdVerifyRow) = 1

\* C6: a Program call made with a context that is already done, a firmware
\* and a 6-byte key, over a transport whose writes succeed, returns that
\* context's error whatever the device replied.
C6_AlreadyCancelled ==
    (/\ pc = "done"
     /\ ctxAtCall # ""
     /\ ~fw.isNil
     /\ Len(key) = BootloaderKeySize
     /\ result.kind # "write command")
    => result.kind = ctxAtCall

\* number of SendData frames at the end of the wire, before its last n frames
RECURSIVE TrailingSendData(_)
TrailingSendData(n) ==
    IF Len(wire) - n >= 1 /\ CmdOf(wire[Len(wire) - n]) = CmdSendData
    THEN 1 + TrailingSendData(n + 1)
    ELSE 0

Ceil(a, b) == (a + b - 1) \div b

RECURSIVE Concat(_)
Concat(ss) == IF ss = <<>> THEN <<>> ELSE Head(ss) \o Concat(Tail(ss))

ReadCmds == SelectSeq(wire, LAMBDA f : CmdOf(f) \notin {CmdSendData, CmdExitBootloader})

\* the byte the claim expects VerifyRow to return for a row
C8_Expected(row) ==
    (row.Checksum + row.ArrayID + (row.RowNum \div 256) + (row.RowNum % 256)
       + (Len(row.Data) \div 256) + (Len(row.Data) % 256)) % 256

C9_GoodReplies ==
    /\ Len(reads) = Len(ReadCmds)
    /\ \A k \in 1..Len(reads) :
         LET c == CmdOf(ReadCmds[k])
             x == Reply(k)
         IN  \/ /\ c = CmdEnterBootloader
                /\ GoodReply(x, 8)
                /\ SiliconIDOf(x.data) = fw.SiliconID
             \/ /\ c = CmdGetFlashSize
                /\ GoodReply(x, 4)
                /\ OutOfRange(x.data[1] + 256 * x.data[2],
                              x.data[3] + 256 * x.data[4]) = {}
             \/ c = CmdProgramRow /\ GoodReply(x, 0)
             \/ /\ c = CmdVerifyRow
                /\ GoodReply(x, 1)
                /\ \E r \in 1..NumRows :
                     /\ PayloadOf(ReadCmds[k]) = << fw.Rows[r].ArrayID >>
                                                   \o PutUint16(fw.Rows[r].RowNum)
                     /\ x.data[1] = fw.Rows[r].Checksum
             \/ /\ c = CmdVerifyChecksum
                /\ GoodReply(x, 1)
                /\ x.data[1] # 0

\* C9: a Program call with a 6-byte key over a transport whose writes succeed,
\* for a firmware whose rows all carry data, in which the device gave the good reply to
\* every command (VerifyRow answering the row's stored Checksum field),
\* returns success.
C9_SuccessOnStoredChecksum ==
    (/\ pc = "done"
     /\ ~fw.isNil
     /\ Len(key) = BootloaderKeySize
     /\ \A r \in 1..NumRows : Len(fw.Rows[r].Data) >= 1
     /\ ctxAtCall = "" /\ ctxErr = ""
     /\ result.kind # "write command"
     /\ C9_GoodReplies)
    => result = Success

\* C10: a VerifyChecksum response with success status and a zero byte ends
\* Program with a VerificationError: ExitBootloader is never written and no
\* completion is reported.
C10_VerificationError ==
    \A k \in 1..Len(reads) :
      (/\ k <= Len(ReadCmds)
       /\ CmdOf(ReadCmds[k]) = CmdVerifyChecksum
       /\ GoodReply(Reply(k), 1)
       /\ Reply(k).data[1] = 0)
      => /\ pc = "done"
         /\ result.kind = "VerificationError"
         /\ result # Success
         /\ Count(CmdExitBootloader) = 0
         /\ \A n \in 1..Len(reports) : reports[n].Phase # "complete"

\* every row programmed and verified, then the device answered "invalid"
C10_Witness ==
    /\ result.kind = "VerificationError"
    /\ NumRows = 2
    /\ Count(CmdVerifyRow) = 2
    /\ GoodReply(Reply(Len(reads)), 1)
    /\ Reply(Len(reads)).data[1] = 0

\* index of the read that answered VerifyChecksum, 0 if none yet
VerifyChecksumReadIndex ==
    IF \E k \in 1..Len(reads) : k <= Len(ReadCmds) /\ CmdOf(ReadCmds[k]) = CmdVerifyChecksum
    THEN CHOOSE k \in 1..Len(reads) :
           k <= Len(ReadCmds) /\ CmdOf(ReadCmds[k]) = CmdVerifyChecksum
    ELSE 0

\* C11: for a VerifyChecksum response with success status and one data byte,
\* the public VerifyChecksum returns no error and valid = (byte is non-zero).
C11_VerifyChecksumResult ==
    LET k == VerifyChecksumReadIndex IN
    (k # 0 /\ GoodReply(Reply(k), 1))
    => VerifyChecksum(reads[k]) = [valid |-> Reply(k).data[1] # 0, err |-> Success]

\* C12: ExitBootloader is on the wire at most once, as the last frame, and
\* only when the read before it answered VerifyChecksum with success status
\* and a non-zero byte; a Program call that returned an error wrote no
\* ExitBootloader.
C12_ExitOnlyAfterValid ==
    /\ Count(CmdExitBootloader) <= 1
    /\ Count(CmdExitBootloader) = 1 =>
          /\ CmdOf(wire[Len(wire)]) = CmdExitBootloader
          /\ Len(reads) = Len(ReadCmds)
          /\ CmdOf(ReadCmds[Len(reads)]) = CmdVerifyChecksum
          /\ GoodReply(Reply(Len(reads)), 1)
          /\ Reply(Len(reads)).data[1] # 0
          /\ result = Success
    /\ (pc = "done" /\ result # Success) => Count(CmdExitBootloader) = 0

\* Program returned with ExitBootloader written after two verified rows
C12_Witness ==
    /\ pc = "done"
    /\ Count(CmdExitBootloader) = 1
    /\ Count(CmdVerifyRow) = 2
    /\ CmdOf(ReadCmds[Len(reads)]) = CmdVerifyChecksum

\* C13: the step that puts ExitBootloader on the wire reads nothing, appends
\* the 'complete' report at 100% and makes Program return success.
C13_ExitReplyIgnored ==
    [][ (pc = "exit_write" /\ Len(wire') > Len(wire))
        => /\ wire' = Append(wire, BuildFrame(CmdExitBootloader, <<>>))
           /\ reads' = reads
           /\ pc' = "done"
           /\ result' = Success
           /\ Len(reports') = Len(reports) + 1
           /\ reports'[Len(reports')].Phase = "complete"
           /\ reports'[Len(reports')].PctNum = 100 * reports'[Len(reports')].PctDen ]_vars

\* ExitBootloader sent after a one-row run, Program returned success
C13_Witness ==
    /\ result = Success
    /\ NumRows = 1
    /\ CmdOf(wire[Len(wire)]) = CmdExitBootloader
    /\ reports[Len(reports)].Phase = "complete"
    /\ Len(reads) = Len(ReadCmds)

\* the places where Program is about to write a command
WritePcs ==
    {"enter_write", "flash_write", "program_row", "verifyrow_write", "vc_write",
     "exit_write"}

\* the failures of a transport Read: an I/O error or too few bytes
ReadFailures == {"read response", "response too short", "incomplete frame"}

\* C14: a step of Program at a write that leaves the wire as it was (the
\* write failed), ExitBootloader's included, and a step that reads a failed
\* or short response, make Program return an error with nothing more written.
C14_TransportFailures ==
    [][ /\ (/\ pc \in WritePcs
            /\ wire' = wire
            /\ ctxErr' = ctxErr
            /\ vars' # vars)
           => pc' = "done" /\ result' \notin {Pending, Success}
        /\ (/\ Len(reads') > Len(reads)
            /\ Exchange(reads'[Len(reads')]).err \in ReadFailures)
           => /\ pc' = "done"
              /\ result' \notin {Pending, Success}
              /\ wire' = wire ]_vars

\* C15: a response with a status other than success ends Program with a
\* ProtocolError carrying that status and a non-empty operation name.
C15_ProtocolErrorOperation ==
    \A k \in 1..Len(reads) :
      (k <= Len(ReadCmds) /\ Reply(k).err = "" /\ Reply(k).status # StatusSuccess)
      => /\ pc = "done"
         /\ result.kind = "ProtocolError"
         /\ result.args[2] = Reply(k).status
         /\ result.args[1] # ""

\* C16: with a nil firmware or a key that is not 6 bytes long Program never
\* reaches a transport write or read: it returns an error with nothing written
\* and nothing read.
C16_ArgumentsBeforeIO ==
    (fw.isNil \/ Len(key) # BootloaderKeySize)
    => /\ pc \in {"start", "done"}
       /\ wire = <<>>
       /\ reads = <<>>
       /\ ~awaiting
       /\ pc = "done" => result \notin {Pending, Success}

\* Program returned for a 5-byte key and a firmware with rows
C16_Witness ==
    /\ pc = "done"
    /\ ~fw.isNil
    /\ NumRows = 2
    /\ Len(key) = 5
    /\ result.kind = "key length"

\* the SendData frames programRow writes for row data d with chunk size c
RECURSIVE ChunkFrames(_, _)
ChunkFrames(d, c) ==
    IF Len(d) > c
    THEN << BuildFrame(CmdSendData, SubSeq(d, 1, c)) >> \o ChunkFrames(SubSeq(d, c + 1, Len(d)), c)
    ELSE <<>>

\* the frames of one row, each once
RowFrames(row) ==
    LET c == config.ChunkSize
        n == IF Len(row.Data) = 0 THEN 0 ELSE (Len(row.Data) - 1) \div c
    IN  ChunkFrames(row.Data, c)
        \o << BuildFrame(CmdProgramRow,
                         << row.ArrayID >> \o PutUint16(row.RowNum)
                           \o SubSeq(row.Data, n * c + 1, Len(row.Data))) >>
        \o (IF config.VerifyAfterProgram
            THEN << BuildFrame(CmdVerifyRow, << row.ArrayID >> \o PutUint16(row.RowNum)) >>
            ELSE <<>>)

\* the frames of a whole Program call, each step once
SinglePassWire ==
    << BuildFrame(CmdEnterBootloader, key) >>
    \o (IF NumRows > 0 THEN << BuildFrame(CmdGetFlashSize, << fw.Rows[1].ArrayID >>) >>
        ELSE <<>>)
    \o Concat([r \in 1..NumRows |-> RowFrames(fw.Rows[r])])
    \o << BuildFrame(CmdVerifyChecksum, <<>>), BuildFrame(CmdExitBootloader, <<>>) >>

IsPrefix(a, b) == Len(a) <= Len(b) /\ a = SubSeq(b, 1, Len(a))

TwosComplement16(bytes) == (65536 - (SumBytes(bytes) % 65536)) % 65536

\* the checksum field of a frame, little-endian
ChecksumField(f) == f[Len(f) - 2] + 256 * f[Len(f) - 1]

\* C18: the checksum field of every frame a command builder returns is the
\* 16-bit two's complement of the sum of the frame's bytes from SOP through
\* the end of DATA.
C18_ChecksumIncludesSOP ==
    codecOrigin.kind = "command"
    => ChecksumField(codecFrame) = TwosComplement16(SubSeq(codecFrame, 1, Len(codecFrame) - 3))

\* the error C19 gives for a frame, "" for none
C19_FirstFailure(f) ==
    IF Len(f) < 7 THEN "frame too short"
    ELSE IF f[1] # 1 THEN "invalid start of packet"
    ELSE IF f[Len(f)] # 23 THEN "invalid end of packet"
    ELSE IF 7 + (f[3] + 256 * f[4]) # Len(f) THEN "frame length mismatch"
    ELSE IF ChecksumField(f) # TwosComplement16(SubSeq(f, 2, Len(f) - 3))
    THEN "checksum mismatch"
    ELSE ""

\* what C19 says of a frame and of ParseResponse's result r for it
C19_Agrees(f, r) ==
    /\ r.err = C19_FirstFailure(f)
    /\ r.err = "" => /\ r.status = f[2]
                     /\ r.data = SubSeq(f, 5, 4 + f[3] + 256 * f[4])

C20_RoundTrip ==
    codecOrigin.kind \in {"command", "response"}
    => /\ SubSeq(codecFrame, 1, Len(codecFrame) - 3)
            = << 1, codecOrigin.code, Len(codecOrigin.payload) % 256,
                 Len(codecOrigin.payload) \div 256 >> \o codecOrigin.payload
       /\ codecFrame[Len(codecFrame)] = 23
       /\ codecParsed = [err |-> "", status |-> codecOrigin.code,
                         data |-> codecOrigin.payload]

\* a ProgramRow command with 256 data bytes parsed back
C20_Witness ==
    /\ codecOrigin.kind = "command"
    /\ codecOrigin.code = CmdProgramRow
    /\ Len(codecOrigin.payload) = 3 + MaxDataSize
    /\ codecParsed.err = ""
    /\ codecParsed.data = codecOrigin.payload

\* ------------------------------------------------------------------------
\* C21: BuildEnterBootloaderCmd returns an error and no frame unless the key
\* has exactly 6 bytes; BuildProgramRowCmd and BuildSendDataCmd return an
\* error and no frame unless the data has 1 to 256 bytes; a builder that
\* accepts its input returns a frame of 7 + payload length bytes whose LEN
\* field is the payload length.
\* ------------------------------------------------------------------------
\* the number of data bytes the builder call was given: the payload less the
\* array id and row number a ProgramRow payload starts with
C21_DataLen ==
    IF codecOrigin.code = CmdProgramRow
    THEN Len(codecOrigin.payload) - 3
    ELSE Len(codecOrigin.payload)

C21_MustReject ==
    \/ codecOrigin.code = CmdEnterBootloader /\ C21_DataLen # 6
    \/ codecOrigin.code \in {CmdProgramRow, CmdSendData}
         /\ (C21_DataLen < 1 \/ C21_DataLen > 256)

C21_BuilderInputs ==
    codecOrigin.kind \in {"command", "rejected"} =>
       /\ (codecOrigin.kind = "rejected") = C21_MustReject
       /\ codecOrigin.kind = "rejected" => codecFrame = <<>>
       /\ codecOrigin.kind = "command" =>
             /\ Len(codecFrame) = 7 + Len(codecOrigin.payload)
             /\ codecFrame[3] + 256 * codecFrame[4] = Len(codecOrigin.payload)

\* a SendData call with one byte too many was rejected
C21_Witness ==
    /\ codecOrigin.kind = "rejected"
    /\ codecOrigin.code = CmdSendData
    /\ Len(codecOrigin.payload) = 257
    /\ codecFrame = <<>>

C23_Body(f) == SubSeq(f, 2, Len(f) - 3)

\* frame f carries the checksum of the firmware's checksum type
C23_Checksummed(f) ==
    IF fw.ChecksumType = ChecksumCRC16
    THEN ChecksumField(f) \in { calculateCRC16(C23_Body(f)),
                                calculateCRC16(<<StartOfPacket>> \o C23_Body(f)) }
    ELSE ChecksumField(f) \in { TwosComplement16(C23_Body(f)),
                                TwosComplement16(<<StartOfPacket>> \o C23_Body(f)) }

C23_ChecksumByType ==
    /\ \A k \in 1..Len(wire) : C23_Checksummed(wire[k])
    /\ \A k \in 1..Len(reads) :
          ~reads[k].ioerr /\ Exchange(reads[k]).err = "" =>
              C23_Checksummed(ExtractFrame(reads[k].raw).frame)

\* ------------------------------------------------------------------------
\* Reading a file the way the format is described
\* ------------------------------------------------------------------------
\* every character of the line is a hex digit, and there is an even number
RowIsHex(l) ==
    /\ Len(l) % 2 = 0
    /\ \A k \in 1..Len(l) : \E v \in 1..16 : UpperHex[v] = l[k] \/ LowerHex[v] = l[k]

HexDigit(c) == (CHOOSE v \in 1..16 : UpperHex[v] = c \/ LowerHex[v] = c) - 1

\* the bytes a line of hex digits stands for
RowDecoded(l) ==
    [k \in 1..(Len(l) \div 2) |-> 16 * HexDigit(l[2 * k - 1]) + HexDigit(l[2 * k])]

\* 8-bit two's complement of the sum of the bytes
RowChecksumOf(bytes) == (256 - (SumBytes(bytes) % 256)) % 256

\* the u16 at bytes at and at + 1 (1-based) of b
RowU16(b, at, bigEndian) ==
    IF bigEndian THEN 256 * b[at] + b[at + 1] ELSE b[at] + 256 * b[at + 1]

\* why the row line l is rejected, "" if it is not
RowVerdict(l, bigEndian) ==
    IF Len(l) < 12 \/ Len(RowDecoded(l)) < 6
    THEN "row too short"
    ELSE LET b == RowDecoded(l)
         IN  IF Len(b) # 5 + RowU16(b, 4, bigEndian) + 1
             THEN "data length mismatch"
             ELSE IF b[Len(b)] # RowChecksumOf(SubSeq(b, 1, Len(b) - 1))
             THEN "checksum mismatch"
             ELSE ""

\* the first line is a header: 12 hex digits, checksum type 0 or 1
HeaderOK(l) ==
    /\ Len(l) = 12
    /\ RowIsHex(l)
    /\ RowDecoded(l)[6] \in {0, 1}

\* line l is a standard row line the description speaks of
StandardRowLine(l) == l # <<>> /\ l[1] # ":" /\ (Len(l) < 12 \/ RowIsHex(l))

\* line l, after its ':', is a hybrid row line the description speaks of
HybridRowLine(l) ==
    l # <<>> /\ l[1] = ":" /\ (Len(l) - 1 < 12 \/ RowIsHex(Tail(l)))

\* the parse gave the one row that line l describes
YieldsRow(l, bigEndian) ==
    LET b == RowDecoded(l)
    IN  /\ parseOut.err = ""
        /\ ~parseOut.fw.isNil
        /\ Len(parseOut.fw.Rows) = 1
        /\ parseOut.fw.Rows[1].ArrayID = b[1]
        /\ parseOut.fw.Rows[1].RowNum = RowU16(b, 2, bigEndian)
        /\ parseOut.fw.Rows[1].Data = SubSeq(b, 6, 5 + RowU16(b, 4, bigEndian))
        /\ parseOut.fw.Rows[1].Checksum = b[Len(b)]

\* a rejected standard row line fails the whole parse
RejectedRowFailsParse ==
    parseOut.kind = "done" /\ Len(fileLines) >= 2 /\ HeaderOK(fileLines[1]) =>
        \A k \in 2..Len(fileLines) :
            StandardRowLine(fileLines[k]) /\ RowVerdict(fileLines[k], FALSE) # "" =>
                parseOut.err # "" /\ parseOut.fw.isNil

C25_RowBytes(row) ==
    << row.ArrayID, row.RowNum % 256, row.RowNum \div 256,
       Len(row.Data) % 256, Len(row.Data) \div 256 >> \o row.Data

C27_RowLines == { k \in 2..Len(fileLines) : fileLines[k] # <<>> }

C27_Header ==
    parseOut.kind = "done" =>
       /\ fileLines = <<>> => parseOut.err = "empty file" /\ parseOut.fw.isNil
       /\ fileLines # <<>> /\ ~HeaderOK(fileLines[1]) =>
            parseOut.err # "" /\ parseOut.line = 1 /\ parseOut.fw.isNil
       /\ fileLines # <<>> /\ HeaderOK(fileLines[1]) /\ C27_RowLines = {} =>
            parseOut.err = "no rows found in file" /\ parseOut.fw.isNil
       /\ parseOut.err = "" =>
            LET b == RowDecoded(fileLines[1])
            IN  /\ HeaderOK(fileLines[1])
                /\ parseOut.fw.SiliconID
                     = 16777216 * b[1] + 65536 * b[2] + 256 * b[3] + b[4]
                /\ parseOut.fw.SiliconRev = b[5]
                /\ parseOut.fw.ChecksumType = b[6]
                /\ Len(parseOut.fw.Rows) = Cardinality(C27_RowLines)

\* a header of silicon id 0x12345678, revision 0x11 and checksum type 1 was
\* accepted
C27_Witness ==
    /\ parseOut.kind = "done"
    /\ parseOut.err = ""
    /\ parseOut.fw.SiliconID = 305419896
    /\ parseOut.fw.SiliconRev = 17
    /\ parseOut.fw.ChecksumType = 1

\* ------------------------------------------------------------------------
\* C28: rows keep their file order from the parse to programming, nothing is
\* sorted and no entry is dropped: the i-th ProgramRow command Program writes
\* carries the array id and the row number of the i-th row line of the file
\* and ends that line's data, and when Program succeeds there is one
\* ProgramRow command per row line, two lines of the same row number included
\* ------------------------------------------------------------------------
\* the index in the file of its i-th row line
C28_RowLineAt(i) ==
    CHOOSE k \in C27_RowLines : Cardinality({ j \in C27_RowLines : j < k }) = i - 1

\* array id, row number and data of the row line l
C28_Entry(l) ==
    LET bigEndian == l[1] = ":"
        b == RowDecoded(IF bigEndian THEN Tail(l) ELSE l)
    IN  [ArrayID |-> b[1],
         RowNum |-> RowU16(b, 2, bigEndian),
         Data |-> SubSeq(b, 6, Len(b) - 1)]

C28_ProgramRowFrames == SelectSeq(wire, LAMBDA f : CmdOf(f) = CmdProgramRow)

C28_FileOrder ==
    LET frames == C28_ProgramRowFrames
    IN  /\ Len(frames) <= Cardinality(C27_RowLines)
        /\ \A i \in 1..Len(frames) :
             LET p == PayloadOf(frames[i])
                 e == C28_Entry(fileLines[C28_RowLineAt(i)])
                 n == Len(p) - 3
             IN  /\ n >= 0
                 /\ p[1] = e.ArrayID
                 /\ Uint16(p[2], p[3]) = e.RowNum
                 /\ n <= Len(e.Data)
                 /\ SubSeq(p, 4, Len(p)) = SubSeq(e.Data, Len(e.Data) - n + 1, Len(e.Data))
        /\ result = Success => Len(frames) = Cardinality(C27_RowLines)

\* Program succeeded on a file of two different row lines for the same row,
\* and wrote a ProgramRow command for each
C28_Witness ==
    /\ result = Success
    /\ Len(fileLines) = 3
    /\ fileLines[2] # fileLines[3]
    /\ C28_Entry(fileLines[2]).ArrayID = C28_Entry(fileLines[3]).ArrayID
    /\ C28_Entry(fileLines[2]).RowNum = C28_Entry(fileLines[3]).RowNum
    /\ C28_Entry(fileLines[2]).Data # C28_Entry(fileLines[3]).Data
    /\ Len(C28_ProgramRowFrames) = 2

\* ------------------------------------------------------------------------
\* C29: a programmer built with no chunk size option, or with one outside
\* 1..256, has chunk size 57; every SendData frame Program writes is then 64
\* bytes long and every ProgramRow frame at most 67
\* ------------------------------------------------------------------------
C29_NoValidRequest ==
    chunkRequest = <<>> \/ chunkRequest[1] < 1 \/ chunkRequest[1] > 256

C30_OwnResponses ==
    \A c \in Callers : \A k \in 1..Len(calls[c].got) : calls[c].got[k].to = c

\* ------------------------------------------------------------------------
\* C31: the reports of a Program call come in the phase order entering,
\* programming, verifying, exiting, complete and their percentages never
\* decrease; when the call succeeded on a firmware of N rows the first report
\* is at 0%, the report after row i has phase programming, CurrentRow i,
\* TotalRows N and percentage 2 + 88 * i / N, and the last report is complete
\* at 100%
\* ------------------------------------------------------------------------
C31_PhaseRank(phase) ==
    CASE phase = "entering" -> 1
      [] phase = "programming" -> 2
      [] phase = "verifying" -> 3
      [] phase = "exiting" -> 4
      [] phase = "complete" -> 5
      [] OTHER -> 0

\* percentage of report a <= percentage of report b
C31_PctLeq(a, b) == a.PctNum * b.PctDen <= b.PctNum * a.PctDen

C32_RowsDone(k) ==
    Cardinality({ j \in 1..k : reports[j].Phase = "programming" /\ reports[j].CurrentRow > 0 })

C32_DataBytes(n) == SumBytes([r \in 1..n |-> Len(fw.Rows[r].Data)])

C32_BytesWritten ==
    /\ \A k \in 1..Len(reports) :
         reports[k].BytesWritten = C32_DataBytes(C32_RowsDone(k))
    /\ \A k \in 1..(Len(reports) - 1) :
         reports[k].BytesWritten <= reports[k + 1].BytesWritten

\* ------------------------------------------------------------------------
\* C33: row verification is on by default; with VerifyAfterProgram on, the
\* command written after a ProgramRow is the VerifyRow of the same row, a
\* VerifyRow is only written right after a ProgramRow, and once a ProgramRow
\* is answered with success the call goes on to write VerifyRow; with
\* VerifyAfterProgram off no VerifyRow is written
\* ------------------------------------------------------------------------
C33_VerifyEveryRow ==
    /\ defaultConfig.VerifyAfterProgram
    /\ ~config.VerifyAfterProgram => Count(CmdVerifyRow) = 0
    /\ config.VerifyAfterProgram =>
         /\ \A k \in 1..Len(wire) :
              /\ (CmdOf(wire[k]) = CmdProgramRow /\ k < Len(wire)) =>
                   /\ CmdOf(wire[k + 1]) = CmdVerifyRow
                   /\ PayloadOf(wire[k + 1]) = SubSeq(PayloadOf(wire[k]), 1, 3)
              /\ CmdOf(wire[k]) = CmdVerifyRow =>
                   k > 1 /\ CmdOf(wire[k - 1]) = CmdProgramRow
         /\ (/\ wire # <<>>
             /\ CmdOf(wire[Len(wire)]) = CmdProgramRow
             /\ ~awaiting
             /\ pc # "done") => pc = "verifyrow_write"
         /\ result = Success => Count(CmdVerifyRow) = NumRows

\* Program succeeded with verification on: two rows, two VerifyRow commands
C33_Witness ==
    /\ config.VerifyAfterProgram
    /\ result = Success
    /\ NumRows = 2
    /\ Count(CmdProgramRow) = 2
    /\ Count(CmdVerifyRow) = 2

\* ------------------------------------------------------------------------
\* C34: the response reader takes byte 0 of what it read as a report id
\* exactly when byte 0 is not SOP and byte 1 is; it fails when fewer than 7
\* bytes were read, when neither byte 0 nor byte 1 is SOP, when fewer than
\* prefix + 7 + LEN bytes were read, or when the last byte of the frame is not
\* EOP; otherwise it returns the 7 + LEN bytes from SOP on
\* ------------------------------------------------------------------------
C34_Prefix ==
    IF Len(readRaw) >= 2 /\ readRaw[1] # 1 /\ readRaw[2] = 1 THEN 1 ELSE 0

\* the LEN field of the frame that starts after the prefix
C34_Len == readRaw[C34_Prefix + 3] + 256 * readRaw[C34_Prefix + 4]

C34_MustFail ==
    \/ Len(readRaw) < 7
    \/ readRaw[1] # 1 /\ readRaw[2] # 1
    \/ Len(readRaw) < C34_Prefix + 7 + C34_Len
    \/ readRaw[C34_Prefix + 7 + C34_Len] # 23

C34_ReportIdPrefix ==
    readOut.kind = "done" =>
       IF C34_MustFail
       THEN readOut.err # ""
       ELSE /\ readOut.err = ""
            /\ readOut.frame
                 = SubSeq(readRaw, C34_Prefix + 1, C34_Prefix + 7 + C34_Len)

\* ------------------------------------------------------------------------
\* C36: whatever bytes a read returns, LEN fields close to 0xFFFF included,
\* the response reader and ParseResponse end with a frame or an error value:
\* no index into the buffer is negative or beyond the bytes read
\* ------------------------------------------------------------------------
C36_NoBadIndex ==
    readOut.kind = "done" =>
       /\ readOut.err # "panic: index out of range"
       /\ readOut.err = "" =>
            /\ Len(readOut.frame) <= Len(readRaw)
            /\ readOut.parsed.err = "" =>
                 Len(readOut.parsed.data) <= Len(readOut.frame) - 7

\* ------------------------------------------------------------------------
\* C35: for a firmware without rows Program writes EnterBootloader,
\* VerifyChecksum, ExitBootloader and nothing else; for a firmware with rows
\* it writes GetFlashSize once, as its second command, for the array of the
\* first row
\* ------------------------------------------------------------------------
C35_FlashSizeOnce ==
    /\ (~fw.isNil /\ NumRows = 0) =>
          /\ IsPrefix(Cmds, << CmdEnterBootloader, CmdVerifyChecksum, CmdExitBootloader >>)
          /\ result = Success => Len(wire) >= 2
    /\ (~fw.isNil /\ NumRows > 0) =>
          /\ Count(CmdGetFlashSize) <= 1
          /\ Len(wire) >= 2 =>
               wire[2] = BuildFrame(CmdGetFlashSize, << fw.Rows[1].ArrayID >>)

\* Program succeeded on a firmware whose first row is in array 1 and whose
\* second row is in array 0
C35_Witness ==
    /\ result = Success
    /\ NumRows = 2
    /\ fw.Rows[1].ArrayID = 1
    /\ fw.Rows[2].ArrayID = 0
    /\ Count(CmdGetFlashSize) = 1

\* ------------------------------------------------------------------------
\* Program against a device that queues one response per command it
\* receives, SendData and ExitBootloader included, and hands out one queued
\* response per Read (the test device RealisticMockDevice)
\* ------------------------------------------------------------------------
\* firmwares of one or two rows with data
QueuedFirmwares ==
    { f \in Firmwares :
        /\ ~f.isNil
        /\ Len(f.Rows) > 0
        /\ \A r \in 1..Len(f.Rows) : Len(f.Rows[r].Data) > 0 }

\* the commands sendCommandWithResponse writes; SendData and ExitBootloader go
\* out with sendCommand, which reads nothing
AwaitsResponse(frame) == FrameCode(frame) \notin {CmdSendData, CmdExitBootloader}

\* the rows Program has written a ProgramRow for once its k-th command is out:
\* at a VerifyRow, the index of the row it verifies
QueuedRowAt(k) ==
    Cardinality({ j \in 1..k : FrameCode(SinglePassWire[j]) = CmdProgramRow })

\* the device's answer to the k-th command: success, with the data Program
\* accepts for that command
QueuedAnswer(k) ==
    IF FrameCode(SinglePassWire[k]) = CmdVerifyRow
    THEN RespFrame(StatusSuccess, << ExpectedChecksum(fw.Rows[QueuedRowAt(k)]) >>)
    ELSE DeviceReply(SinglePassWire[k])

\* what Program makes of the response r to its k-th command: "" or the error
QueuedVerdict(k, r) ==
    IF FrameCode(SinglePassWire[k]) = CmdVerifyRow /\ r.err = "" /\ r.status = StatusSuccess
    THEN (IF ParseVerifyRowResponse(r.data).err THEN "invalid response"
          ELSE IF ParseVerifyRowResponse(r.data).checksum
                    # ExpectedChecksum(fw.Rows[QueuedRowAt(k)])
          THEN "checksum mismatch" ELSE "")
    ELSE CallVerdict(FrameCode(SinglePassWire[k]), r)

QueuedInit ==
    /\ fw \in QueuedFirmwares
    /\ key = GoodKey
    /\ config \in { c \in Configs : c.Retries = DefaultRetries }
    /\ chunkRequest = << config.ChunkSize >>
    /\ ctxErr = ""
    /\ ctxAtCall = ""
    /\ pc = "start"
    /\ rowIdx = 0
    /\ data = <<>>
    /\ bytesWritten = 0
    /\ wire = <<>>
    /\ reads = <<>>
    /\ awaiting = FALSE
    /\ reports = <<>>
    /\ result = Pending
    /\ CodecNotCalled
    /\ ParserNotCalled
    /\ ReaderNotCalled
    /\ calls = [c \in Callers |-> IF c = 1 THEN CallAt("send") ELSE CallAt("idle")]
    /\ devReplies = <<>>

\* the call after its k-th command is dealt with
QueuedAdvance(k) ==
    IF k < Len(SinglePassWire) THEN [pc |-> "send", step |-> k + 1]
    ELSE [pc |-> "done", step |-> k]

\* p.device.Write(cmd) of sendCommand and sendCommandWithResponse: the device
\* takes the command and queues its answer
QueuedWrite ==
    /\ calls[1].pc = "send"
    /\ LET k == calls[1].step
           frame == SinglePassWire[k]
       IN  /\ wire' = Append(wire, frame)
           /\ devReplies' = Append(devReplies,
                                   [to |-> 1, cmd |-> FrameCode(frame), at |-> k,
                                    frame |-> QueuedAnswer(k)])
           /\ calls' = IF AwaitsResponse(frame)
                       THEN [calls EXCEPT ![1].pc = "receive"]
                       ELSE [calls EXCEPT ![1].pc = QueuedAdvance(k).pc,
                                          ![1].step = QueuedAdvance(k).step]
    /\ UNCHANGED << fw, key, config, ctxErr, ctxAtCall, pc, rowIdx, data, bytesWritten,
                    reads, awaiting, reports, result,
                    newVars, codecVars, decoderVars, parserVars, readerVars >>

\* p.device.Read(response) of sendCommandWithResponse: the oldest queued
\* response, and what the operation makes of it
QueuedRead ==
    /\ calls[1].pc = "receive"
    /\ devReplies # <<>>
    /\ LET k == calls[1].step
           re == Head(devReplies)
           verdict == QueuedVerdict(k, Exchange([ioerr |-> FALSE, raw |-> re.frame]))
           got == Append(calls[1].got, [to |-> re.to, cmd |-> re.cmd, at |-> re.at,
                                        asked |-> k])
       IN  /\ devReplies' = Tail(devReplies)
           /\ calls' = IF verdict # ""
                       THEN [calls EXCEPT ![1].pc = "done", ![1].err = verdict,
                                          ![1].got = got]
                       ELSE [calls EXCEPT ![1].pc = QueuedAdvance(k).pc,
                                          ![1].step = QueuedAdvance(k).step,
                                          ![1].got = got]
    /\ UNCHANGED << programVars, newVars, codecVars, decoderVars, parserVars, readerVars >>

QueuedNext == QueuedWrite \/ QueuedRead

QueuedSpec == QueuedInit /\ [][QueuedNext]_vars

\* ------------------------------------------------------------------------
\* C37: against a device that queues one response per command and returns
\* one per read, every response Program parses answers the command written
\* last, and the call ends without an error, rows larger than the chunk size
\* included
\* ------------------------------------------------------------------------
C37_QueuedLockstep ==
    /\ \A k \in 1..Len(calls[1].got) : calls[1].got[k].at = calls[1].got[k].asked
    /\ calls[1].pc = "done" => calls[1].err = ""

\* ------------------------------------------------------------------------
\* C38: for every row the parser accepts, from a standard or a ':' line, the
\* checksum verifyRow expects from the device equals the two's complement of
\* the sum of the row's data bytes alone
\* ------------------------------------------------------------------------
C38_MetadataCancels ==
    (parseOut.kind = "done" /\ parseOut.err = "") =>
       \A r \in 1..Len(parseOut.fw.Rows) :
          ExpectedChecksum(parseOut.fw.Rows[r]) = RowChecksumOf(parseOut.fw.Rows[r].Data)

\* a ':' line for array 1, row 0x0102 with three data bytes was accepted, and
\* its file checksum is not the checksum of its data
C38_Witness ==
    /\ parseOut.kind = "done"
    /\ parseOut.err = ""
    /\ Len(fileLines) = 2
    /\ fileLines[2][1] = ":"
    /\ parseOut.fw.Rows[1].ArrayID = 1
    /\ parseOut.fw.Rows[1].RowNum = 258
    /\ Len(parseOut.fw.Rows[1].Data) = 3
    /\ parseOut.fw.Rows[1].Checksum # RowChecksumOf(parseOut.fw.Rows[1].Data)

\* ------------------------------------------------------------------------
\* C39: Program frames every firmware the parser accepts: each SendData and
\* ProgramRow payload it hands to the builders is non-empty and at most 256
\* bytes long, so a call on a parsed firmware never ends on a builder's
\* validation error, a row without data included
\* ------------------------------------------------------------------------
C39_ParsedRowsFrame ==
    (parseOut.kind = "done" /\ parseOut.err = "" /\ fw = parseOut.fw) =>
       /\ result.kind # "invalid argument"
       /\ \A k \in 1..Len(wire) :
            /\ CmdOf(wire[k]) = CmdSendData =>
                 Len(PayloadOf(wire[k])) \in 1..256
            /\ CmdOf(wire[k]) = CmdProgramRow =>
                 Len(PayloadOf(wire[k])) - 3 \in 1..256

\* ------------------------------------------------------------------------
\* C40: a report of phase complete, or of 100%, is delivered exactly when
\* Program returns success: a successful call delivered it once, as its last
\* report, and a call that returned an error or is still running delivered
\* none
\* ------------------------------------------------------------------------
C40_Final == { k \in 1..Len(reports) :
                 reports[k].Phase = "complete" \/ reports[k].PctNum = 100 * reports[k].PctDen }

C40_CompleteIffSuccess ==
    IF result = Success
    THEN /\ reports # <<>>
         /\ C40_Final = { Len(reports) }
         /\ reports[Len(reports)].Phase = "complete"
    ELSE C40_Final = {}

\* Program returned a verification error after the verifying report, with the
\* rows programmed, and no complete report was delivered
C40_Witness ==
    /\ result.kind = "VerificationError"
    /\ NumRows = 2
    /\ reports[Len(reports)].Phase = "verifying"
    /\ C40_Final = {}

====
